---------------------------- MODULE Spec2Model ----------------------------
(***************************************************************************)
(* Model of the MMDP multimodal retrieval-augmented chat application:      *)
(* the text chunker (processors/text_processor.py), the per-session        *)
(* registry, the ingestion handlers and the chat handler (app.py), the     *)
(* vector store adapter (database/vector_db.py), the upload helper         *)
(* (utils/file_handler.py), the vision calls (llm/openai_handler.py) and   *)
(* the frame extraction and transcription of processors/media_processor.py.*)
(*                                                                         *)
(* A text is a sequence of one-character strings.  Strings that the code   *)
(* never inspects character by character (questions, model answers, error  *)
(* messages) are TLA+ strings.  Python's None is the tagged value NoneV.   *)
(***************************************************************************)
EXTENDS Integers, Sequences, FiniteSets, TLC

(***************************************************************************)
(* Bounds of the model.                                                    *)
(***************************************************************************)
MaxLen == 5          \* longest text given to the chunker in SpecChunk
MaxSize == 4         \* largest chunk size given to the chunker in SpecChunk
MaxBatch == 2        \* most files in one upload batch in Spec
MaxTurns == 2        \* most transcript turns of a session before a chat
MaxBlankImgs == 11   \* most blank image descriptions in SpecRetrieval
MaxDocImgs == 5      \* most non-blank image descriptions in SpecRetrieval
MaxSeconds == 90     \* longest audio given to the transcription in SpecMedia

(***************************************************************************)
(* Program constants (config.py).                                          *)
(***************************************************************************)
CHUNK_SIZE == 1000
CHUNK_OVERLAP == 200

(***************************************************************************)
(* Python values.                                                          *)
(***************************************************************************)
NoneV == <<"None">>
IntV(n) == <<"int", n>>
StrV(s) == <<"str", s>>      \* a str held as a TLA+ string
TextV(t) == <<"text", t>>    \* a str held as a text
\* Python truthiness of None, an int or a str
Truthy(v) ==
    IF v[1] = "None" THEN FALSE
    ELSE IF v[1] = "int" THEN v[2] # 0
    ELSE IF v[1] = "str" THEN v[2] # ""
    ELSE v[2] # <<>>

Min(a, b) == IF a <= b THEN a ELSE b

(***************************************************************************)
(* Text primitives.                                                        *)
(***************************************************************************)
Whitespace == {" ", "\n", "\t"}

\* the text made of n copies of the character c
Rep(c, n) == [i \in 1..n |-> c]

\* Python's text[i:j] for 0 <= i <= j
Slice_short(text, i, j) == SubSeq(text, i + 1, Min(j, Len(text)) - 1)
Slice(text, i, j) == SubSeq(text, i + 1, Min(j, Len(text)))

\* str.lstrip(): from the first character that is not whitespace
lstrip(text) ==
    IF \A k \in 1..Len(text) : text[k] \in Whitespace THEN <<>>
    ELSE SubSeq(text,
                CHOOSE k \in 1..Len(text) :
                    /\ text[k] \notin Whitespace
                    /\ \A m \in 1..(k - 1) : text[m] \in Whitespace,
                Len(text))

\* str.rstrip(): up to the last character that is not whitespace
rstrip(text) ==
    IF text # <<>> /\ text[Len(text)] \notin Whitespace THEN text
    ELSE IF \A k \in 1..Len(text) : text[k] \in Whitespace THEN <<>>
    ELSE SubSeq(text, 1,
                CHOOSE k \in 1..Len(text) :
                    /\ text[k] \notin Whitespace
                    /\ \A m \in (k + 1)..Len(text) : text[m] \in Whitespace)

\* str.strip()
strip(text) == rstrip(lstrip(text))

(***************************************************************************)
(* TextProcessor.chunk_text: the while loop over start.                    *)
(***************************************************************************)
RECURSIVE chunk_loop(_, _, _, _, _)
chunk_loop(text, chunk_size, overlap, start, chunks) ==
    IF start < Len(text)
    THEN chunk_loop(text, chunk_size, overlap, start + chunk_size - overlap,
                    Append(chunks, Slice(text, start, start + chunk_size)))
    ELSE chunks

chunk_text_whole_windows(text, chunk_size, overlap) ==
    SelectSeq(chunk_loop(text, chunk_size, overlap, 0, <<>>),
              LAMBDA chunk : Len(chunk) = chunk_size)
chunk_text_nooverlap(text, chunk_size, overlap) ==
    chunk_loop(text, chunk_size, 0, 0, <<>>)
chunk_text(text, chunk_size, overlap) ==
    chunk_loop(text, chunk_size, overlap, 0, <<>>)

(***************************************************************************)
(* The inline chunking loop of the ingestion paths (app.py):               *)
(* for i in range(0, len(text), size - overlap), keeping the windows that  *)
(* are not whitespace-only.                                                *)
(***************************************************************************)
RECURSIVE inline_loop(_, _, _, _, _)
inline_loop(text, size, overlap, i, chunks) ==
    IF i < Len(text)
    THEN LET chunk == Slice(text, i, i + size)
         IN  inline_loop(text, size, overlap, i + (size - overlap),
                         IF strip(chunk) # <<>> THEN Append(chunks, chunk)
                                                ELSE chunks)
    ELSE chunks

inline_chunks_unfiltered(text, size, overlap) ==
    chunk_loop(text, size, overlap, 0, <<>>)
inline_chunks_strict(text, size, overlap) ==
    IF Len(text) < size THEN <<>> ELSE inline_loop(text, size, overlap, 0, <<>>)
inline_chunks(text, size, overlap) == inline_loop(text, size, overlap, 0, <<>>)

\* process_text_document after extraction: the empty-text check, then the loop
text_document_chunks(text, size, overlap) ==
    IF text = <<>> \/ Len(strip(text)) = 0
    THEN [error |-> StrV("No text found"), chunks |-> <<>>]
    ELSE [error |-> NoneV, chunks |-> inline_chunks(text, size, overlap)]

\* metadatas = [{"source": ..., "type": ..., "chunk": i} for i in range(len(chunks))]
chunk_metadatas_from_one(chunks, source, type) ==
    [i \in 1..Len(chunks) |-> [source |-> source, type |-> type, chunk |-> i]]
chunk_metadatas(chunks, source, type) ==
    [i \in 1..Len(chunks) |-> [source |-> source, type |-> type, chunk |-> i - 1]]


(***************************************************************************)
(* State.                                                                  *)
(*   argText, argSize, argOverlap  inputs of a chunker call                *)
(*   retChunks   result of TextProcessor.chunk_text on them                *)
(*   retInline   result of the chunking stage of process_text_document     *)
(*   session     per browser session: the Flask session cookie             *)
(*   dbKeys, dbs app.dbs: the session ids that own a store, and the        *)
(*               documents of each store in insertion order                *)
(*   llmKeys     app.llms: the session ids that own an LLM client          *)
(*   req, resp   the last request handled and its JSON response            *)
(*   calls       the collaborator calls made while handling req, in order  *)
(*   disk        the frame and segment files present on disk               *)
(*   api_key     OPENAI_API_KEY of config.py, fixed when the process starts *)
(*   argFile     the media file given to a direct describer call           *)
(*   retMedia    result of analyze_video_frames or transcribe_audio on it  *)
(*   chroma      the chromadb clients of the process: chroma.shared tells   *)
(*               whether the clients made by chromadb.Client(Settings(...)) *)
(*               address one in-memory system, so that get_or_create_      *)
(*               collection gives every VectorDatabase the one collection  *)
(*               of that name (dbs then holds its documents under every    *)
(*               session), or each client has a system of its own;         *)
(*               chroma.stale holds the sessions whose VectorDatabase      *)
(*               refers to a collection that has been deleted since        *)
(*   made        the registry objects constructed while handling req:      *)
(*               "VectorDatabase" (app.py:26, 341), "OpenAIHandler" (38)    *)
(***************************************************************************)
VARIABLES argText, argSize, argOverlap, retChunks, retInline,
          session, dbKeys, dbs, llmKeys, req, resp, calls,
          disk, api_key, argFile, retMedia, chroma, made

chunkVars == <<argText, argSize, argOverlap, retChunks, retInline>>
appVars == <<session, dbKeys, dbs, llmKeys, req, resp, calls, disk, api_key,
             chroma, made>>
mediaVars == <<argFile, retMedia>>
vars == <<argText, argSize, argOverlap, retChunks, retInline,
          session, dbKeys, dbs, llmKeys, req, resp, calls,
          disk, api_key, argFile, retMedia, chroma, made>>

Alphabet == {"a", "b", " "}
Texts == UNION {[1..n -> Alphabet] : n \in 0..MaxLen}

NotCalled == [done |-> FALSE]

(***************************************************************************)
(* File names: os.path.splitext(name)[1].lower().                          *)
(***************************************************************************)
UpperSeq == <<"A", "B", "C", "D", "E", "F", "G", "H", "I", "J", "K", "L", "M",
              "N", "O", "P", "Q", "R", "S", "T", "U", "V", "W", "X", "Y", "Z">>
LowerSeq == <<"a", "b", "c", "d", "e", "f", "g", "h", "i", "j", "k", "l", "m",
              "n", "o", "p", "q", "r", "s", "t", "u", "v", "w", "x", "y", "z">>

lower_char(c) ==
    IF \E k \in 1..26 : UpperSeq[k] = c
    THEN LowerSeq[CHOOSE k \in 1..26 : UpperSeq[k] = c]
    ELSE c

\* str.lower()
lower_identity(s) == s
lower(s) == [k \in 1..Len(s) |-> lower_char(s[k])]

\* the largest index of ch in p, 0 when absent (str.rfind + 1)
LastIndexOf(p, ch) ==
    IF \E k \in 1..Len(p) : p[k] = ch
    THEN CHOOSE k \in 1..Len(p) : p[k] = ch /\ \A m \in (k + 1)..Len(p) : p[m] # ch
    ELSE 0

\* os.path.splitext(p)[1]: from the last dot, unless the name has no dot
\* after its last separator or only leading dots before it
splitext_ext(p) ==
    LET dot == LastIndexOf(p, ".")
        sep == LastIndexOf(p, "/")
    IN  IF dot > sep /\ \E k \in (sep + 1)..(dot - 1) : p[k] # "."
        THEN SubSeq(p, dot, Len(p))
        ELSE <<>>

EXT_PDF == <<".", "p", "d", "f">>
EXT_DOCX == <<".", "d", "o", "c", "x">>
EXT_PPTX == <<".", "p", "p", "t", "x">>
EXT_TXT == <<".", "t", "x", "t">>
EXT_MD == <<".", "m", "d">>
EXT_PNG == <<".", "p", "n", "g">>
EXT_JPG == <<".", "j", "p", "g">>
EXT_JPEG == <<".", "j", "p", "e", "g">>
EXT_MP4 == <<".", "m", "p", "4">>
EXT_MP3 == <<".", "m", "p", "3">>

TextExtensions == {EXT_PDF, EXT_DOCX, EXT_PPTX, EXT_TXT, EXT_MD}
ImageExtensions == {EXT_PNG, EXT_JPG, EXT_JPEG}

(***************************************************************************)
(* The state one request works on: the session cookie and the registry     *)
(* entries of its session id, with the log of collaborator calls.          *)
(*   sid   'session_id' in session        db   session_id in app.dbs       *)
(*   llm   session_id in app.llms         docs the store's documents       *)
(*   chat_history, processed_files        the session lists                *)
(*   disk  the files on disk              key  OPENAI_API_KEY              *)
(*   stale   the collection of the session's VectorDatabase is deleted     *)
(*   deleted the request has deleted the collection                        *)
(*   made    the registry objects the request has constructed              *)
(***************************************************************************)
\* what a call on a collection that no longer exists raises
StaleCollection == StrV("Collection does not exist.")

Logged(st, entry) == [st EXCEPT !.log = Append(@, entry)]

\* get_db(): the session id is created on first use, and its store with it
get_db_always_new(st) ==
    [st EXCEPT !.sid = TRUE, !.db = TRUE, !.made = @ \cup {"VectorDatabase"}]
get_db(st) ==
    IF st.db
    THEN [st EXCEPT !.sid = TRUE]
    ELSE [st EXCEPT !.sid = TRUE, !.db = TRUE, !.made = @ \cup {"VectorDatabase"}]

\* get_llm()
get_llm(st) ==
    IF st.llm
    THEN [st EXCEPT !.sid = TRUE]
    ELSE [st EXCEPT !.sid = TRUE, !.llm = TRUE, !.made = @ \cup {"OpenAIHandler"}]

\* add_chat_message(role, content)
add_chat_message_only(st, role, content) ==
    [st EXCEPT !.chat_history = <<[role |-> role, content |-> content]>>]
add_chat_message_front(st, role, content) ==
    [st EXCEPT !.chat_history = <<[role |-> role, content |-> content]>> \o @]
add_chat_message(st, role, content) ==
    [st EXCEPT !.chat_history = Append(@, [role |-> role, content |-> content])]

\* add_processed_file(name, status, message)
add_processed_file(st, name, status, message) ==
    [st EXCEPT !.processed_files =
        Append(@, [name |-> name, status |-> status, message |-> message])]

\* VectorDatabase.add_documents, when the collection accepts the documents
\* (the timestamp it adds to each metadata is left out)
add_documents_first(st, documents, metadatas) ==
    [st EXCEPT !.docs = @ \o
        [k \in 1..Min(1, Len(documents)) |->
            [document |-> documents[k], metadata |-> metadatas[k]]]]
add_documents(st, documents, metadatas) ==
    [st EXCEPT !.docs = @ \o
        [k \in 1..Len(documents) |->
            [document |-> documents[k], metadata |-> metadatas[k]]]]

\* the outcome of one process_* call
Outcome(result, error, st) == [result |-> result, error |-> error, st |-> st]

\* db = get_db(); db.add_documents(documents, metadatas), then return
\* (result, None); the add raising is caught by the caller's except
StoreAndReturn(st, f, i, documents, metadatas, result) ==
    LET raised == IF st.stale THEN StaleCollection ELSE f.add
        st1 == Logged(get_db(st),
                      [op |-> "add", file |-> i, documents |-> documents,
                       metadatas |-> metadatas, ok |-> raised = NoneV])
    IN  IF raised = NoneV
        THEN Outcome(result, NoneV, add_documents(st1, documents, metadatas))
        ELSE Outcome(NoneV, raised, st1)

(***************************************************************************)
(* Configuration (config.py) and the client of llm/openai_handler.py.      *)
(* A key is known to the code by its prefix only.                          *)
(***************************************************************************)
KeyOpenAI == <<"s", "k", "-", "1">>
KeyOpenRouter == <<"s", "k", "-", "o", "r", "-", "1">>
KeyNone == <<>>
ApiKeys == {KeyOpenAI, KeyOpenRouter, KeyNone}

OPENAI_MODEL == <<"g", "p", "t", "-", "4", "o", "-", "m", "i", "n", "i">>
GPT_4O == <<"g", "p", "t", "-", "4", "o">>
OPENAI_GPT_4O_MINI == 
    <<"o", "p", "e", "n", "a", "i", "/", "g", "p", "t", "-", "4", "o", "-",
      "m", "i", "n", "i">>
OPENAI_GPT_4O == <<"o", "p", "e", "n", "a", "i", "/", "g", "p", "t", "-", "4", "o">>
GEMINI_FLASH == 
    <<"g", "o", "o", "g", "l", "e", "/", "g", "e", "m", "i", "n", "i", "-",
      "2", ".", "0", "-", "f", "l", "a", "s", "h", "-", "e", "x", "p", ":",
      "f", "r", "e", "e">>
CLAUDE_SONNET == 
    <<"a", "n", "t", "h", "r", "o", "p", "i", "c", "/", "c", "l", "a", "u",
      "d", "e", "-", "3", ".", "5", "-", "s", "o", "n", "n", "e", "t">>

\* str.startswith and the in operator on str
startswith(s, p) == Len(s) >= Len(p) /\ SubSeq(s, 1, Len(p)) = p
contains(s, p) ==
    \E k \in 0..(Len(s) - Len(p)) : SubSeq(s, k + 1, k + Len(p)) = p

\* OpenAIHandler.__init__: self.model_name
handler_model_name(key, model_name) ==
    IF startswith(key, <<"s", "k", "-", "o", "r", "-">>)
    THEN IF model_name = OPENAI_MODEL THEN OPENAI_GPT_4O_MINI
         ELSE IF model_name = GPT_4O THEN OPENAI_GPT_4O
         ELSE model_name
    ELSE model_name

\* the test both vision methods make on self.model_name
uses_router_models(model_name) ==
    \/ contains(model_name, <<"o", "p", "e", "n", "a", "i", "/">>)
    \/ startswith(model_name, <<"s", "k", "-", "o", "r">>)

(***************************************************************************)
(* The vision calls.  f.vision[k] is the outcome of the k-th call of       *)
(* client.chat.completions.create made for the file f: VisionOk (the       *)
(* response carries the content f.raw), VisionNone (it carries no content) *)
(* or VisionRaise(message) (the call raises).                              *)
(***************************************************************************)
VisionOk == <<"ok">>
VisionNone == <<"none">>
VisionRaise(message) == <<"raise", message>>

NoLenMessage == 
    <<"o", "b", "j", "e", "c", "t", " ", "o", "f", " ", "t", "y", "p", "e",
      " ", "'", "N", "o", "n", "e", "T", "y", "p", "e", "'", " ", "h", "a",
      "s", " ", "n", "o", " ", "l", "e", "n", "(", ")">>
ErrorAnalyzingImage == 
    <<"E", "r", "r", "o", "r", " ", "a", "n", "a", "l", "y", "z", "i", "n",
      "g", " ", "i", "m", "a", "g", "e", ":", " ">>
NoFramesLoaded == 
    <<"E", "r", "r", "o", "r", ":", " ", "N", "o", " ", "f", "r", "a", "m",
      "e", "s", " ", "c", "o", "u", "l", "d", " ", "b", "e", " ", "l", "o",
      "a", "d", "e", "d", " ", "f", "o", "r", " ", "a", "n", "a", "l", "y",
      "s", "i", "s">>
AllModelsFailed == 
    <<"E", "r", "r", "o", "r", ":", " ", "A", "l", "l", " ", "v", "i", "s",
      "i", "o", "n", " ", "m", "o", "d", "e", "l", "s", " ", "f", "a", "i",
      "l", "e", "d", " ", "t", "o", " ", "a", "n", "a", "l", "y", "z", "e",
      " ", "t", "h", "e", " ", "v", "i", "d", "e", "o", ".", " ", "T", "h",
      "e", " ", "s", "e", "r", "v", "i", "c", "e", " ", "m", "a", "y", " ",
      "b", "e", " ", "r", "a", "t", "e", "-", "l", "i", "m", "i", "t", "e",
      "d", ".", " ", "P", "l", "e", "a", "s", "e", " ", "t", "r", "y", " ",
      "a", "g", "a", "i", "n", " ", "l", "a", "t", "e", "r", " ", "o", "r",
      " ", "w", "i", "t", "h", " ", "f", "e", "w", "e", "r", "/", "s", "h",
      "o", "r", "t", "e", "r", " ", "v", "i", "d", "e", "o", "s", ".">>

\* str(e) of the exception the k-th call ends with: the raised one, or the
\* TypeError of len(result) on a response without content
vision_error(f, k) ==
    IF f.vision[k] = VisionNone THEN NoLenMessage ELSE f.vision[k][2]

\* OpenAIHandler.analyze_image: one call; every failure is returned as text
analyze_image(st, f, i) ==
    LET model_name == handler_model_name(st.key, OPENAI_MODEL)
        vision_model == IF uses_router_models(model_name)
                        THEN GEMINI_FLASH ELSE GPT_4O
        st1 == Logged(st, [op |-> "vision_call", file |-> i,
                           model |-> vision_model, ok |-> f.vision[1] = VisionOk])
    IN  [st |-> st1,
         result |-> IF f.vision[1] = VisionOk THEN f.raw
                    ELSE ErrorAnalyzingImage \o vision_error(f, 1)]

\* the list analyze_video_frames walks
vision_models(model_name) ==
    IF uses_router_models(model_name)
    THEN <<GEMINI_FLASH, OPENAI_GPT_4O_MINI, CLAUDE_SONNET>>
    ELSE <<GPT_4O>>

\* the loop of analyze_video_frames from the k-th model on
RECURSIVE try_models(_, _, _, _, _)
try_models(models, k, st, f, i) ==
    IF k > Len(models)
    THEN [st |-> st, result |-> AllModelsFailed]
    ELSE
    LET st1 == Logged(st, [op |-> "vision_call", file |-> i,
                           model |-> models[k], ok |-> f.vision[k] = VisionOk])
    IN  IF f.vision[k] = VisionOk
        THEN [st |-> st1, result |-> f.raw]
        ELSE try_models(models, k + 1, st1, f, i)

\* the same loop calling every model, and keeping the first response
RECURSIVE try_every_model(_, _, _, _, _, _)
try_every_model(models, k, st, f, i, found) ==
    IF k > Len(models)
    THEN [st |-> st, result |-> IF found THEN f.raw ELSE AllModelsFailed]
    ELSE try_every_model(models, k + 1,
             Logged(st, [op |-> "vision_call", file |-> i,
                         model |-> models[k], ok |-> f.vision[k] = VisionOk]),
             f, i, found \/ f.vision[k] = VisionOk)

\* OpenAIHandler.analyze_video_frames: the frames that can be read are
\* encoded (at most 10), then the models are tried
analyze_video_frames_first_only(st, f, i, frame_paths) ==
    try_models(SubSeq(vision_models(handler_model_name(st.key, OPENAI_MODEL)), 1, 1),
               1, st, f, i)
analyze_video_frames_every_model(st, f, i, frame_paths) ==
    try_every_model(vision_models(handler_model_name(st.key, OPENAI_MODEL)),
                    1, st, f, i, FALSE)
analyze_video_frames(st, f, i, frame_paths) ==
    LET first10 == SubSeq(frame_paths, 1, Min(10, Len(frame_paths)))
        frame_images == SelectSeq(first10, LAMBDA fp : fp \in st.disk)
    IN  IF frame_images = <<>>
        THEN [st |-> st, result |-> NoFramesLoaded]
        ELSE try_models(vision_models(handler_model_name(st.key, OPENAI_MODEL)),
                        1, st, f, i)

(***************************************************************************)
(* Frame files (MediaProcessor.extract_video_frames).  Every upload is     *)
(* saved under the name of its form field, so the paths do not depend on   *)
(* the uploaded file.                                                      *)
(***************************************************************************)
NUM_FRAMES == 8
SavedPath == 
    <<".", "/", "u", "p", "l", "o", "a", "d", "s", "/", "f", "i", "l", "e",
      "s">>

\* path.rsplit('.', 1)[0]
rsplit_dot_head(path) ==
    IF LastIndexOf(path, ".") = 0 THEN path
    ELSE SubSeq(path, 1, LastIndexOf(path, ".") - 1)

\* video_path.rsplit('.', 1)[0] + f'_frame_{i}.jpg'
frame_path(video_path, k) ==
    [stem |-> rsplit_dot_head(video_path), fmt |-> "_frame_{i}.jpg", i |-> k]

\* extract_video_frames: f.frames frame files are written; the paths are
\* returned when all NUM_FRAMES were, and [] when a step raised before
extract_video_frames(st, f, i, video_path) ==
    LET written == {frame_path(video_path, k) : k \in 0..(f.frames - 1)}
        st1 == Logged([st EXCEPT !.disk = @ \cup written],
                      [op |-> "extract_video_frames", file |-> i])
    IN  [st |-> st1,
         result |-> IF f.frames = NUM_FRAMES
                    THEN [k \in 1..NUM_FRAMES |-> frame_path(video_path, k - 1)]
                    ELSE <<>>]

\* the clean-up loop of process_video_file: os.remove of every frame that
\* exists; f.unlink holds the frame numbers whose removal raises
remove_frames_none(st, f, frame_paths) == st
remove_frames(st, f, frame_paths) ==
    [st EXCEPT !.disk = @ \ {frame_paths[k] : k \in {m \in 1..Len(frame_paths) :
                                                    frame_paths[m].i \notin f.unlink}}]

(***************************************************************************)
(* MediaProcessor.transcribe_audio.  For an audio file f:                  *)
(*   f.convert   NoneV, or the message of the exception the conversion to  *)
(*               WAV raises                                                *)
(*   f.size      os.path.getsize of the normalized file, in bytes          *)
(*   f.seconds   int(audio.duration)                                       *)
(*   f.millis    the rest of audio.duration, in milliseconds (0..999)      *)
(*   f.split     NoneV, or IntV(k) when split_audio_into_chunks fails      *)
(*               after writing k segment files (0 without moviepy)         *)
(*   f.whisper   the outcomes of the successive calls of the primary       *)
(*               service: SaidText(text) or CallRaised(message)            *)
(*   f.google    NoneV when speech_recognition is not installed, else the  *)
(*               outcomes of the successive recognitions of the secondary  *)
(*               service: SaidText(text), Unrecognized (UnknownValueError), *)
(*               ServiceError(message) (RequestError) or                   *)
(*               CallRaised(message) (any other exception)                 *)
(***************************************************************************)
SaidText(text) == <<"text", text>>
Unrecognized == <<"unknown">>
ServiceError(message) == <<"request", message>>
CallRaised(message) == <<"raise", message>>

MB == 1024 * 1024
WHISPER_LIMIT_MB == 20
GOOGLE_LIMIT_MB == 10
WHISPER_SEGMENT_SECONDS == 60
GOOGLE_SEGMENT_SECONDS == 30

\* os.path.getsize(wav_path) / (1024 * 1024) > limit
size_exceeds_or_equals(size, limit) == size >= limit * MB
size_exceeds(size, limit) == size > limit * MB

SrNotAvailable == 
    <<"[", "S", "p", "e", "e", "c", "h", " ", "r", "e", "c", "o", "g", "n",
      "i", "t", "i", "o", "n", " ", "n", "o", "t", " ", "a", "v", "a", "i",
      "l", "a", "b", "l", "e", ".", " ", "I", "n", "s", "t", "a", "l", "l",
      " ", "w", "i", "t", "h", ":", " ", "p", "i", "p", " ", "i", "n", "s",
      "t", "a", "l", "l", " ", "S", "p", "e", "e", "c", "h", "R", "e", "c",
      "o", "g", "n", "i", "t", "i", "o", "n", "]">>
NoSpeechDetected == 
    <<"[", "N", "o", " ", "s", "p", "e", "e", "c", "h", " ", "d", "e", "t",
      "e", "c", "t", "e", "d", " ", "i", "n", " ", "a", "u", "d", "i", "o",
      " ", "-", " ", "m", "a", "y", " ", "b", "e", " ", "m", "u", "s", "i",
      "c", ",", " ", "s", "o", "u", "n", "d", " ", "e", "f", "f", "e", "c",
      "t", "s", ",", " ", "o", "r", " ", "n", "o", "n", "-", "E", "n", "g",
      "l", "i", "s", "h", " ", "c", "o", "n", "t", "e", "n", "t", "]">>
CouldNotUnderstand == 
    <<"[", "C", "o", "u", "l", "d", " ", "n", "o", "t", " ", "u", "n", "d",
      "e", "r", "s", "t", "a", "n", "d", " ", "a", "u", "d", "i", "o", " ",
      "-", " ", "s", "p", "e", "e", "c", "h", " ", "m", "a", "y", " ", "b",
      "e", " ", "u", "n", "c", "l", "e", "a", "r", " ", "o", "r", " ", "i",
      "n", " ", "u", "n", "s", "u", "p", "p", "o", "r", "t", "e", "d", " ",
      "l", "a", "n", "g", "u", "a", "g", "e", "]">>
ServiceErrorPrefix == 
    <<"[", "S", "p", "e", "e", "c", "h", " ", "r", "e", "c", "o", "g", "n",
      "i", "t", "i", "o", "n", " ", "s", "e", "r", "v", "i", "c", "e", " ",
      "e", "r", "r", "o", "r", ":", " ">>
ServiceErrorSuffix == 
    <<".", " ", "C", "h", "e", "c", "k", " ", "i", "n", "t", "e", "r", "n",
      "e", "t", " ", "c", "o", "n", "n", "e", "c", "t", "i", "o", "n", "]">>
TranscriptionFailedPrefix == 
    <<"[", "T", "r", "a", "n", "s", "c", "r", "i", "p", "t", "i", "o", "n",
      " ", "f", "a", "i", "l", "e", "d", ":", " ">>
TranscriptionFailedSuffix == <<"]">>

\* audio_path.rsplit('.', 1)[0] + '_temp.wav'
temp_wav_path(audio_path) ==
    [stem |-> rsplit_dot_head(audio_path), fmt |-> "_temp.wav"]

\* audio_path.rsplit('.', 1)[0] + f'_chunk_{chunk_index}.wav' of the WAV file
chunk_path(wav_path, k) ==
    [stem |-> wav_path.stem, fmt |-> "_temp_chunk_{chunk_index}.wav", i |-> k]

\* len(range(0, int(duration), chunk_duration_seconds))
segment_count(seconds, chunk_duration_seconds) ==
    (seconds + chunk_duration_seconds - 1) \div chunk_duration_seconds

\* audio.duration, in milliseconds
duration_ms(f) == f.seconds * 1000 + f.millis

\* the arguments of audio.subclipped(i, end_time), in milliseconds, for
\* i in range(0, int(duration), chunk_duration_seconds) and
\* end_time = min(i + chunk_duration_seconds, duration)
segment_bounds(f, chunk_duration_seconds) ==
    [k \in 1..segment_count(f.seconds, chunk_duration_seconds) |->
        [start |-> (k - 1) * chunk_duration_seconds * 1000,
         end |-> Min(k * chunk_duration_seconds * 1000, duration_ms(f))]]

\* split_audio_into_chunks: the segment files are written in order; a
\* failure on the way returns [audio_path] and leaves the files written
split_audio_into_chunks(st, f, i, wav_path, chunk_duration_seconds) ==
    LET n == segment_count(f.seconds, chunk_duration_seconds)
        written == IF f.split = NoneV THEN n ELSE Min(f.split[2], n)
        st1 == Logged([st EXCEPT !.disk = @ \cup
                           {chunk_path(wav_path, k) : k \in 0..(written - 1)}],
                      [op |-> "split", file |-> i,
                       seconds |-> chunk_duration_seconds,
                       ok |-> f.split = NoneV,
                       segments |-> SubSeq(segment_bounds(f, chunk_duration_seconds),
                                           1, written)])
    IN  [st |-> st1,
         result |-> IF f.split = NoneV
                    THEN [k \in 1..n |-> chunk_path(wav_path, k - 1)]
                    ELSE <<wav_path>>]

\* " ".join(transcripts)
RECURSIVE join_space(_)
join_space(transcripts) ==
    IF transcripts = <<>> THEN <<>>
    ELSE IF Len(transcripts) = 1 THEN transcripts[1]
    ELSE transcripts[1] \o <<" ">> \o join_space(Tail(transcripts))

\* the clean-up after a segment: os.remove unless the segment is the file
remove_chunk(st, chunk, wav_path) ==
    IF chunk # wav_path THEN [st EXCEPT !.disk = @ \ {chunk}] ELSE st

\* the segment loop of the primary service, from the j-th segment on:
\* every exception of a segment is caught
RECURSIVE whisper_chunks(_, _, _, _, _, _, _)
whisper_chunks(chunks, j, st, f, i, wav_path, transcripts) ==
    IF j > Len(chunks)
    THEN [st |-> st, transcripts |-> transcripts]
    ELSE
    LET ok == f.whisper[j][1] = "text"
        st1 == Logged(st, [op |-> "whisper", file |-> i, path |-> chunks[j],
                           ok |-> ok])
    IN  whisper_chunks(chunks, j + 1, remove_chunk(st1, chunks[j], wav_path),
                       f, i, wav_path,
                       IF ok THEN Append(transcripts, f.whisper[j][2])
                       ELSE transcripts)

\* the segment loop of the secondary service, from the j-th segment on:
\* UnknownValueError and RequestError are caught, any other exception
\* leaves the loop before the clean-up of its segment
RECURSIVE google_chunks(_, _, _, _, _, _, _)
google_chunks(chunks, j, st, f, i, wav_path, transcripts) ==
    IF j > Len(chunks)
    THEN [st |-> st, transcripts |-> transcripts, raised |-> NoneV]
    ELSE
    LET o == f.google[j]
        st1 == Logged(st, [op |-> "google", file |-> i, path |-> chunks[j],
                           ok |-> o[1] = "text"])
    IN  IF o[1] = "raise"
        THEN [st |-> st1, transcripts |-> transcripts, raised |-> o]
        ELSE google_chunks(chunks, j + 1, remove_chunk(st1, chunks[j], wav_path),
                           f, i, wav_path,
                           IF o[1] = "text" THEN Append(transcripts, o[2])
                           ELSE transcripts)

\* the handlers at the end of transcribe_audio
transcription_error_text(o) ==
    IF o[1] = "unknown" THEN CouldNotUnderstand
    ELSE IF o[1] = "request"
    THEN ServiceErrorPrefix \o o[2] \o ServiceErrorSuffix
    ELSE TranscriptionFailedPrefix \o o[2] \o TranscriptionFailedSuffix

\* the secondary service (Google Speech Recognition)
transcribe_google(st, f, i, wav_path) ==
    IF f.google = NoneV
    THEN [st |-> st, result |-> SrNotAvailable]
    ELSE
    LET st1 == Logged(st, [op |-> "getsize", file |-> i, service |-> "google"])
    IN  IF size_exceeds(f.size, GOOGLE_LIMIT_MB)
        THEN
        LET split == split_audio_into_chunks(st1, f, i, wav_path,
                                             GOOGLE_SEGMENT_SECONDS)
            done == google_chunks(split.result, 1, split.st, f, i, wav_path, <<>>)
        IN  [st |-> done.st,
             result |-> IF done.raised # NoneV
                        THEN transcription_error_text(done.raised)
                        ELSE IF done.transcripts # <<>>
                        THEN join_space(done.transcripts)
                        ELSE NoSpeechDetected]
        ELSE
        LET st2 == Logged(st1, [op |-> "google", file |-> i, path |-> wav_path,
                                ok |-> f.google[1][1] = "text"])
        IN  [st |-> st2,
             result |-> IF f.google[1][1] = "text" THEN f.google[1][2]
                        ELSE transcription_error_text(f.google[1])]

\* the primary service (Whisper); result NoneV stands for the exception
\* that sends the call to the secondary service
transcribe_whisper(st, f, i, wav_path) ==
    IF startswith(st.key, <<"s", "k", "-", "o", "r", "-">>)
    THEN [st |-> st, result |-> NoneV]
    ELSE
    LET st1 == Logged(st, [op |-> "getsize", file |-> i, service |-> "whisper"])
    IN  IF size_exceeds(f.size, WHISPER_LIMIT_MB)
        THEN
        LET split == split_audio_into_chunks(st1, f, i, wav_path,
                                             WHISPER_SEGMENT_SECONDS)
            done == whisper_chunks(split.result, 1, split.st, f, i, wav_path, <<>>)
        IN  [st |-> done.st,
             result |-> IF done.transcripts # <<>>
                        THEN TextV(join_space(done.transcripts))
                        ELSE NoneV]
        ELSE
        LET st2 == Logged(st1, [op |-> "whisper", file |-> i, path |-> wav_path,
                                ok |-> f.whisper[1][1] = "text"])
        IN  [st |-> st2,
             result |-> IF f.whisper[1][1] = "text" THEN TextV(f.whisper[1][2])
                        ELSE NoneV]

\* transcribe_audio(audio_path): a text on every path that is modelled
transcribe_audio(st, f, i, audio_path) ==
    IF f.convert # NoneV
    THEN [st |-> st,
          result |-> TranscriptionFailedPrefix \o f.convert
                        \o TranscriptionFailedSuffix]
    ELSE
    LET wav_path == temp_wav_path(audio_path)
        primary == IF st.key # <<>>
                   THEN transcribe_whisper(st, f, i, wav_path)
                   ELSE [st |-> st, result |-> NoneV]
    IN  IF primary.result # NoneV
        THEN [st |-> primary.st, result |-> primary.result[2]]
        ELSE transcribe_google(primary.st, f, i, wav_path)

(***************************************************************************)
(* The ingestion paths of app.py.  An uploaded file f carries the outcomes *)
(* of the collaborators that handle it:                                    *)
(*   f.filename  the uploaded name                                         *)
(*   f.save      NoneV, or StrV(message) when saving the upload raises     *)
(*   f.fail      NoneV, or StrV(message) when the extractor (text),        *)
(*               ImageProcessor.process_image (image) or transcribe_audio  *)
(*               (audio) raises                                            *)
(*   f.raw       the text the extractor reads before stripping, or the     *)
(*               content of the vision response                            *)
(*   f.frames    the number of frames extract_video_frames writes          *)
(*   f.add       NoneV, or StrV(message) when the store's add raises       *)
(*   f.vision    the outcomes of the vision calls made for it              *)
(*   f.unlink    the frame numbers whose removal raises                    *)
(***************************************************************************)
process_text_document(st, f, i) ==
    LET extension == lower(splitext_ext(f.filename))
    IN  IF extension \notin TextExtensions
        THEN Outcome(NoneV, StrV("Unsupported format"), st)
        ELSE
        LET st1 == Logged(st, [op |-> "extract", file |-> i])
        IN  IF f.fail # NoneV
            THEN Outcome(NoneV, f.fail, st1)
            ELSE
            \* every TextProcessor.process_* returns text.strip()
            LET text == strip(f.raw)
                staged == text_document_chunks(text, CHUNK_SIZE, CHUNK_OVERLAP)
            IN  IF staged.error # NoneV
                THEN Outcome(NoneV, staged.error, st1)
                ELSE StoreAndReturn(st1, f, i, staged.chunks,
                                    chunk_metadatas(staged.chunks, f.filename, "text"),
                                    IntV(Len(staged.chunks)))

process_image_file(st, f, i) ==
    LET st1 == Logged(st, [op |-> "process_image", file |-> i])
    IN  IF f.fail # NoneV
        THEN Outcome(NoneV, f.fail, st1)
        ELSE
        \* llm.analyze_image returns a string on every path
        LET called == analyze_image(
                          Logged(get_llm(st1), [op |-> "analyze_image", file |-> i]),
                          f, i)
            st2 == called.st
            description == called.result
        IN  IF description # <<>>
            THEN StoreAndReturn(st2, f, i, <<description>>,
                                <<[source |-> f.filename, type |-> "image"]>>,
                                TextV(description))
            ELSE Outcome(NoneV, StrV("Failed to analyze"), st2)

process_video_file(st, f, i) ==
    LET extracted == extract_video_frames(st, f, i, SavedPath)
        st1 == extracted.st
        frame_paths == extracted.result
    IN  IF frame_paths # <<>>
        THEN
        LET called == analyze_video_frames(
                          Logged(get_llm(st1),
                                 [op |-> "analyze_video_frames", file |-> i]),
                          f, i, frame_paths)
            st2 == called.st
            summary == called.result
        IN  IF summary # <<>>
            THEN
            LET out == StoreAndReturn(st2, f, i, <<summary>>,
                                      <<[source |-> f.filename, type |-> "video"]>>,
                                      TextV(summary))
            IN  \* the add raising leaves for the except clause
                IF out.error # NoneV THEN out
                ELSE [out EXCEPT !.st = remove_frames(out.st, f, frame_paths)]
            ELSE Outcome(NoneV, StrV("Failed to analyze"), st2)
        ELSE Outcome(NoneV, StrV("Failed to extract frames"), st1)

process_audio_file(st, f, i) ==
    LET st1 == Logged(st, [op |-> "transcribe_audio", file |-> i])
    IN  IF f.fail # NoneV
        THEN Outcome(NoneV, f.fail, st1)
        ELSE
        LET called == transcribe_audio(st1, f, i, SavedPath)
            st2 == called.st
            transcript == called.result
        IN  IF transcript # <<>>
            THEN
            LET chunks == inline_chunks(transcript, CHUNK_SIZE, CHUNK_OVERLAP)
            IN  StoreAndReturn(st2, f, i, chunks,
                               chunk_metadatas(chunks, f.filename, "audio"),
                               IntV(Len(chunks)))
            ELSE Outcome(NoneV, StrV("Failed to transcribe"), st2)

(***************************************************************************)
(* api_process_files: the loop body for the i-th file.  The loop state b   *)
(* holds the request state st, success_count and, once an exception has    *)
(* left the loop, the message of that exception in raised.                 *)
(***************************************************************************)
ErrorMessage(error) == [fmt |-> "Error: {error}", error |-> error]
ChunksMessage(result) == [fmt |-> "Processed {result} chunks", result |-> result]
CharsMessage(result) == [fmt |-> "Analyzed ({len(result)} chars)", len |-> Len(result[2])]
UnsupportedMessage(extension) ==
    [fmt |-> "Unsupported format: {extension}", extension |-> extension]

\* the error/success branches after process_text_document and process_audio_file
ReportCount_uncounted(b, f, out) ==
    IF Truthy(out.error)
    THEN [b EXCEPT !.st = add_processed_file(out.st, f.filename, "error",
                                             ErrorMessage(out.error))]
    ELSE [b EXCEPT !.st = add_processed_file(out.st, f.filename, "success",
                                             ChunksMessage(out.result))]
ReportCount(b, f, out) ==
    IF Truthy(out.error)
    THEN [b EXCEPT !.st = add_processed_file(out.st, f.filename, "error",
                                             ErrorMessage(out.error))]
    ELSE [b EXCEPT !.st = add_processed_file(out.st, f.filename, "success",
                                             ChunksMessage(out.result)),
                   !.success_count = @ + 1]

\* the error/success branches after process_image_file and process_video_file;
\* len(result) raises TypeError when result is None
ReportChars(b, f, out) ==
    IF Truthy(out.error)
    THEN [b EXCEPT !.st = add_processed_file(out.st, f.filename, "error",
                                             ErrorMessage(out.error))]
    ELSE IF out.result = NoneV
    THEN [b EXCEPT !.st = out.st,
                   !.raised = StrV("object of type 'NoneType' has no len()")]
    ELSE [b EXCEPT !.st = add_processed_file(out.st, f.filename, "success",
                                             CharsMessage(out.result)),
                   !.success_count = @ + 1]

\* FileHandler.save_uploaded_file: os.path.join(upload_folder, uploaded_file.name),
\* returned after the write; a failure of makedirs, open, getbuffer or write
\* is raised to the caller
save_uploaded_file(f) == IF f.save # NoneV THEN f.save ELSE StrV("./uploads/files")

process_one(b, f, i) ==
    IF f.filename = <<>> THEN b
    ELSE
    LET st0 == Logged(b.st, [op |-> "save", file |-> i])
        file_path == save_uploaded_file(f)
    IN  IF f.save # NoneV
        THEN [b EXCEPT !.st = st0, !.raised = file_path]
        ELSE IF ~Truthy(file_path)
        THEN [b EXCEPT !.st = add_processed_file(st0, f.filename, "error",
                                  [fmt |-> "Failed to save file"])]
        ELSE
        LET extension == lower(splitext_ext(f.filename))
        IN  IF extension \in TextExtensions
            THEN ReportCount([b EXCEPT !.st = st0], f,
                             process_text_document(st0, f, i))
            ELSE IF extension \in ImageExtensions
            THEN ReportChars([b EXCEPT !.st = st0], f,
                             process_image_file(st0, f, i))
            ELSE IF extension = EXT_MP4
            THEN ReportChars([b EXCEPT !.st = st0], f,
                             process_video_file(st0, f, i))
            ELSE IF extension = EXT_MP3
            THEN ReportCount([b EXCEPT !.st = st0], f,
                             process_audio_file(st0, f, i))
            ELSE [b EXCEPT !.st = add_processed_file(st0, f.filename, "error",
                                      UnsupportedMessage(extension))]

RECURSIVE process_loop(_, _, _)
process_loop(b, files, i) ==
    IF i > Len(files) \/ b.raised # NoneV
    THEN b
    ELSE process_loop(process_one(b, files[i], i), files, i + 1)

(***************************************************************************)
(* Vector store queries (VectorDatabase.query over the Chroma collection): *)
(* the documents of the min(n_results, count) nearest entries.  Which      *)
(* entries are nearest is the embedding's choice; the model lets it be any *)
(* selection of that many documents, kept in insertion order.              *)
(***************************************************************************)
RECURSIVE Selections(_, _)
Selections(docs, n) ==
    IF n = 0 THEN {<<>>}
    ELSE IF Len(docs) <= n THEN {docs}
    ELSE {<<Head(docs)>> \o t : t \in Selections(Tail(docs), n - 1)}
         \cup Selections(Tail(docs), n)

DocumentsOf(docs) == [k \in 1..Len(docs) |-> docs[k].document]

QueryOutcomes(docs, n_results) ==
    {[raised |-> StrV("query failed"), documents |-> <<>>]} \cup
    {[raised |-> NoneV, documents |-> r] : r \in Selections(DocumentsOf(docs), n_results)}

\* VectorDatabase.count_documents
count_documents(st) == Len(st.docs)

\* [doc for doc in docs if doc and doc.strip()]
non_empty_keepall(documents) == documents
RECURSIVE non_empty(_)
non_empty(documents) ==
    IF documents = <<>> THEN <<>>
    ELSE IF Head(documents) # <<>> /\ strip(Head(documents)) # <<>>
    THEN <<Head(documents)>> \o non_empty(Tail(documents))
    ELSE non_empty(Tail(documents))

\* "\n\n".join(context_docs)
RECURSIVE join_context(_)
join_context(context_docs) ==
    IF context_docs = <<>> THEN <<>>
    ELSE IF Len(context_docs) = 1 THEN Head(context_docs)
    ELSE Head(context_docs) \o <<"\n", "\n">> \o join_context(Tail(context_docs))

UploadFirstMessage ==
    "I don't have any relevant information to answer that question. Please upload some documents first!"
NoRelevantMessage ==
    "I found some documents but they don't contain relevant information to answer your question."

(***************************************************************************)
(* api_chat.  body is the request body: body.json is FALSE when it has no  *)
(* JSON object (request.get_json() raises or data.get fails), body.message *)
(* is "" when the message is missing or empty.  q1 and q2 are the outcomes *)
(* of the store queries with n_results 15 and 20, answer is what           *)
(* llm.generate_response returns (the completion, or its own error text).  *)
(***************************************************************************)
\* except Exception as e: the error text becomes an assistant turn
chat_fail(st, e) ==
    LET error_msg == "Error processing chat: " \o e[2]
    IN  [st |-> add_chat_message(st, "assistant", error_msg),
         resp |-> [success |-> FALSE, error |-> error_msg]]

chat_reply_listed(st, response) ==
    [st |-> add_processed_file(add_chat_message(st, "assistant", response),
                               <<"c", "h", "a", "t">>, "success",
                               [fmt |-> "answered"]),
     resp |-> [success |-> TRUE, response |-> response]]
chat_reply(st, response) ==
    [st |-> add_chat_message(st, "assistant", response),
     resp |-> [success |-> TRUE, response |-> response]]

\* if context_docs: ... llm.generate_response(enhanced_prompt) else the fixed text
chat_compose_always(st, message, context_docs, answer) ==
    chat_reply(Logged(get_llm(st),
                      [op |-> "generate_response",
                       prompt |-> [context |-> join_context(context_docs),
                                   question |-> message]]),
               answer)
chat_compose(st, message, context_docs, answer) ==
    IF context_docs # <<>>
    THEN chat_reply(Logged(get_llm(st),
                           [op |-> "generate_response",
                            prompt |-> [context |-> join_context(context_docs),
                                        question |-> message]]),
                    answer)
    ELSE chat_reply(st, NoRelevantMessage)

\* if len(context_docs) < 5 and db.count_documents() > 10
needs_wider_never(st, context_docs) == FALSE
needs_wider_always(st, context_docs) == Len(context_docs) < 5
needs_wider(st, context_docs) ==
    Len(context_docs) < 5 /\ count_documents(st) > 10

\* the body of the outer if, once the first query has returned documents
chat_retrieve(st, message, q1, q2, answer) ==
    LET context_docs == non_empty(q1.documents)
    IN  IF needs_wider(st, context_docs)
        THEN
        LET st1 == Logged(st, [op |-> "query", n_results |-> 20,
                               raised |-> q2.raised,
                               documents |-> q2.documents])
        IN  IF q2.raised # NoneV
            THEN chat_fail(st1, q2.raised)
            ELSE chat_compose(st1, message,
                              IF q2.documents # <<>>
                              THEN non_empty(q2.documents) ELSE context_docs,
                              answer)
        ELSE chat_compose(st, message, context_docs, answer)

\* db.query on the session's collection: q when the collection exists
query_outcome(st, q) ==
    IF st.stale THEN [raised |-> StaleCollection, documents |-> <<>>] ELSE q

api_chat(st, body, q1a, q2a, answer) ==
    LET q1 == query_outcome(st, q1a)
        q2 == query_outcome(st, q2a)
    IN
    IF ~body.json
    THEN chat_fail(st, StrV("'NoneType' object has no attribute 'get'"))
    ELSE IF body.message = ""
    THEN [st |-> st, resp |-> [success |-> FALSE, error |-> "No message provided"]]
    ELSE
    LET message == body.message
        st1 == add_chat_message(st, "user", message)
        st2 == Logged(get_db(st1), [op |-> "query", n_results |-> 15,
                                    raised |-> q1.raised,
                                    documents |-> q1.documents])
    IN  IF q1.raised # NoneV
        THEN chat_fail(st2, q1.raised)
        ELSE IF q1.documents # <<>>
        THEN chat_retrieve(st2, message, q1, q2, answer)
        ELSE chat_reply(st2, UploadFirstMessage)

(***************************************************************************)
(* api_clear_database.                                                     *)
(***************************************************************************)
api_clear_database_keep(st) ==
    [st |-> [st EXCEPT !.chat_history = <<>>, !.processed_files = <<>>],
     resp |-> [success |-> TRUE, message |-> "Database cleared successfully"]]
api_clear_database(st) ==
    LET \* delete_collection(), then a new VectorDatabase: get_or_create_collection
        \* finds no collection of that name and creates an empty one
        st1 == IF st.sid /\ st.db
               THEN Logged([st EXCEPT !.docs = <<>>, !.stale = FALSE,
                                      !.deleted = TRUE,
                                      !.made = @ \cup {"VectorDatabase"}],
                           [op |-> "delete_collection"])
               ELSE st
        st2 == IF st1.sid /\ st1.llm THEN [st1 EXCEPT !.llm = FALSE] ELSE st1
    IN  [st |-> [st2 EXCEPT !.chat_history = <<>>, !.processed_files = <<>>],
         resp |-> [success |-> TRUE, message |-> "Database cleared successfully"]]

(***************************************************************************)
(* api_process_files and api_process_youtube.                              *)
(***************************************************************************)
api_process_files(st, files) ==
    IF files = <<>>
    THEN [st |-> st, resp |-> [success |-> FALSE, error |-> "No files provided"]]
    ELSE
    LET b == process_loop([st |-> st, success_count |-> 0, raised |-> NoneV],
                          files, 1)
    IN  IF b.raised # NoneV
        THEN [st |-> b.st, resp |-> [success |-> FALSE, error |-> b.raised[2]]]
        ELSE [st |-> b.st,
              resp |-> [success |-> TRUE,
                        processed_count |-> b.success_count,
                        total_count |-> Len(files)]]

\* y carries the outcomes for the URL: y.fail when MediaProcessor.process_youtube
\* raises, y.raw its transcript (result['content']), y.add the store's add
api_process_youtube(st, body, y) ==
    IF ~body.json
    THEN [st |-> st, resp |-> [success |-> FALSE,
                               error |-> "'NoneType' object has no attribute 'get'"]]
    ELSE IF body.url = <<>>
    THEN [st |-> st, resp |-> [success |-> FALSE, error |-> "No URL provided"]]
    ELSE
    LET url == body.url
        st1 == Logged(st, [op |-> "process_youtube", file |-> 0])
    IN  IF y.fail # NoneV
        THEN [st |-> st1, resp |-> [success |-> FALSE, error |-> y.fail[2]]]
        ELSE
        LET transcript == y.raw
        IN  IF transcript # <<>> /\ Len(strip(transcript)) > 0
            THEN
            LET chunks == inline_chunks(transcript, CHUNK_SIZE, CHUNK_OVERLAP)
                out == StoreAndReturn(st1, y, 0, chunks,
                                      chunk_metadatas(chunks, url, "youtube"),
                                      IntV(Len(chunks)))
                message == [fmt |-> "Processed {len(chunks)} chunks ({len(transcript)} characters)",
                            chunks |-> Len(chunks), characters |-> Len(transcript)]
            IN  IF out.error # NoneV
                THEN [st |-> out.st,
                      resp |-> [success |-> FALSE, error |-> out.error[2]]]
                ELSE [st |-> add_processed_file(out.st, url, "success", message),
                      resp |-> [success |-> TRUE, message |-> message]]
            ELSE [st |-> st1, resp |-> [success |-> FALSE,
                                        error |-> "No transcript found or empty"]]

\* index(): db = get_db(); doc_count = db.count_documents()
index(st) ==
    LET st1 == get_db(st)
    IN  IF st1.stale
        THEN \* count() raises and no handler catches it
             [st |-> st1, resp |-> [raised |-> StaleCollection[2]]]
        ELSE [st |-> st1,
              resp |-> [doc_count |-> count_documents(st1),
                        chat_history |-> st1.chat_history,
                        processed_files |-> st1.processed_files]]

(***************************************************************************)
(* Actions: one per request handler, on the state of the session c.        *)
(***************************************************************************)
Clients == {1, 2}

Load(c) ==
    [sid |-> session[c].sid, db |-> c \in dbKeys, llm |-> c \in llmKeys,
     docs |-> dbs[c], chat_history |-> session[c].chat_history,
     processed_files |-> session[c].processed_files, log |-> <<>>,
     disk |-> disk, key |-> api_key,
     stale |-> c \in chroma.stale, deleted |-> FALSE, made |-> {}]

Handle(c, request, out) ==
    /\ session' = [session EXCEPT ![c] =
                      [sid |-> out.st.sid, chat_history |-> out.st.chat_history,
                       processed_files |-> out.st.processed_files]]
    /\ dbKeys' = IF out.st.db THEN dbKeys \cup {c} ELSE dbKeys
    /\ dbs' = IF chroma.shared
              THEN [d \in Clients |-> out.st.docs]
              ELSE [dbs EXCEPT ![c] = out.st.docs]
    /\ chroma' = IF chroma.shared /\ out.st.deleted
                 THEN [chroma EXCEPT !.stale = dbKeys \ {c}]
                 ELSE chroma
    /\ made' = out.st.made
    /\ llmKeys' = IF out.st.llm THEN llmKeys \cup {c} ELSE llmKeys \ {c}
    /\ req' = request
    /\ resp' = out.resp
    /\ calls' = out.st.log
    /\ disk' = out.st.disk
    /\ UNCHANGED <<chunkVars, mediaVars, api_key>>

ApiProcessFiles(c, files) ==
    Handle(c, [kind |-> "process_files", client |-> c, files |-> files],
           api_process_files(Load(c), files))

ApiProcessYoutube(c, body, y) ==
    Handle(c, [kind |-> "process_youtube", client |-> c, body |-> body, y |-> y],
           api_process_youtube(Load(c), body, y))

ApiChat(c, body, q1, q2, answer) ==
    Handle(c, [kind |-> "chat", client |-> c, body |-> body, answer |-> answer],
           api_chat(Load(c), body, q1, q2, answer))

ApiClearDatabase(c) ==
    Handle(c, [kind |-> "clear_database", client |-> c],
           api_clear_database(Load(c)))

Index(c) ==
    Handle(c, [kind |-> "index", client |-> c], index(Load(c)))

\* a call of TextProcessor.chunk_text on the inputs
CallChunkText ==
    /\ ~retChunks.done
    /\ retChunks' = [done |-> TRUE,
                     chunks |-> chunk_text(argText, argSize, argOverlap)]
    /\ UNCHANGED <<argText, argSize, argOverlap, retInline>>
    /\ UNCHANGED <<appVars, mediaVars>>

\* the chunking stage of process_text_document on the inputs
CallInlineChunks ==
    /\ ~retInline.done
    /\ retInline' = [done |-> TRUE,
                     staged |-> text_document_chunks(argText, argSize, argOverlap)]
    /\ UNCHANGED <<argText, argSize, argOverlap, retChunks>>
    /\ UNCHANGED <<appVars, mediaVars>>

(***************************************************************************)
(* Inputs.                                                                 *)
(***************************************************************************)
\* a call of llm.analyze_video_frames on the frames of the video argFile,
\* all NUM_FRAMES of them on disk
CallAnalyzeVideoFrames ==
    /\ lower(splitext_ext(argFile.filename)) = EXT_MP4
    /\ ~retMedia.done
    /\ LET frame_paths == [k \in 1..NUM_FRAMES |-> frame_path(SavedPath, k - 1)]
           st == [Load(1) EXCEPT !.disk = @ \cup {frame_paths[k] : k \in 1..NUM_FRAMES}]
           called == analyze_video_frames(st, argFile, 1, frame_paths)
       IN  retMedia' = [done |-> TRUE, fn |-> "analyze_video_frames",
                        result |-> called.result, calls |-> called.st.log]
    /\ UNCHANGED <<chunkVars, appVars, argFile>>

\* a call of MediaProcessor.transcribe_audio on the saved audio argFile
CallTranscribeAudio ==
    /\ lower(splitext_ext(argFile.filename)) = EXT_MP3
    /\ ~retMedia.done
    /\ LET called == transcribe_audio(Load(1), argFile, 1, SavedPath)
       IN  /\ retMedia' = [done |-> TRUE, fn |-> "transcribe_audio",
                           result |-> called.result, calls |-> called.st.log]
           /\ disk' = called.st.disk
    /\ UNCHANGED <<chunkVars, session, dbKeys, dbs, llmKeys, req, resp, calls,
                   api_key, argFile, chroma, made>>

\* a call of MediaProcessor.split_audio_into_chunks on the normalized audio
\* of argFile
CallSplitAudio ==
    /\ lower(splitext_ext(argFile.filename)) = EXT_MP3
    /\ ~retMedia.done
    /\ \E chunk_duration_seconds \in
             {WHISPER_SEGMENT_SECONDS, GOOGLE_SEGMENT_SECONDS} :
          LET called == split_audio_into_chunks(Load(1), argFile, 1,
                                                temp_wav_path(SavedPath),
                                                chunk_duration_seconds)
          IN  /\ retMedia' = [done |-> TRUE, fn |-> "split_audio_into_chunks",
                              result |-> called.result,
                              calls |-> called.st.log]
              /\ disk' = called.st.disk
    /\ UNCHANGED <<chunkVars, session, dbKeys, dbs, llmKeys, req, resp, calls,
                   api_key, argFile, chroma, made>>

\* a call of the process_* function that api_process_files chooses for the
\* saved file argFile, in a session that has handled no request yet
CallProcessFile ==
    /\ req.kind = "none"
    /\ LET extension == lower(splitext_ext(argFile.filename))
           out == IF extension \in TextExtensions
                  THEN process_text_document(Load(1), argFile, 1)
                  ELSE IF extension \in ImageExtensions
                  THEN process_image_file(Load(1), argFile, 1)
                  ELSE IF extension = EXT_MP4
                  THEN process_video_file(Load(1), argFile, 1)
                  ELSE process_audio_file(Load(1), argFile, 1)
       IN  Handle(1, [kind |-> "process_file", client |-> 1, file |-> argFile],
                  [st |-> out.st,
                   resp |-> [result |-> out.result, error |-> out.error]])

\* an upload whose vision calls all answer, whose frames can be removed and
\* whose audio, a small file, is transcribed to raw by either service
File(filename, save, fail, raw, frames, add) ==
    [filename |-> filename, save |-> save, fail |-> fail, raw |-> raw,
     frames |-> frames, add |-> add,
     vision |-> <<VisionOk, VisionOk, VisionOk>>, unlink |-> {},
     convert |-> NoneV, size |-> MB, seconds |-> 0, millis |-> 0,
     split |-> NoneV,
     whisper |-> <<SaidText(raw)>>, google |-> <<SaidText(raw)>>]

NamePdf == <<"d", ".", "p", "d", "f">>
NameTxtUpper == <<"N", ".", "T", "X", "T">>
NamePng == <<"i", ".", "p", "n", "g">>
NameMp4 == <<"v", ".", "m", "p", "4">>
NameMp3 == <<"s", ".", "m", "p", "3">>
NameExe == <<"x", ".", "e", "x", "e">>
NameNoExt == <<"r">>

\* the extracted text of the end-to-end scenario: 2400 non-whitespace characters
ScenarioText == Rep("a", 2400)
\* a text whose window at offset 800 is whitespace only
GapText == <<"a">> \o Rep(" ", 1799) \o <<"b">>

SaveFailed == StrV("'SpooledTemporaryFile' object has no attribute 'getbuffer'")
ExtractFailed == StrV("Error processing PDF: EOF marker not found")
ImageFailed == StrV("Error processing image: cannot identify image file")
AddFailed == StrV("store add failed")
\* str(e) of an exception raised without a message
NoMessage == StrV("")

TextFiles ==
    {File(NamePdf, NoneV, NoneV, ScenarioText, 0, NoneV),
     File(NamePdf, NoneV, NoneV, <<" ">>, 0, NoneV),
     File(NamePdf, NoneV, ExtractFailed, <<>>, 0, NoneV),
     File(NamePdf, NoneV, NoneV, <<"a">>, 0, AddFailed),
     File(NameTxtUpper, NoneV, NoneV, <<" ", "b", "\n">>, 0, NoneV),
     File(NamePdf, NoneV, NoneV, GapText, 0, NoneV)}

ImageFiles ==
    {File(NamePng, NoneV, NoneV, <<"a">>, 0, NoneV),
     File(NamePng, NoneV, NoneV, <<" ">>, 0, NoneV),
     File(NamePng, NoneV, NoneV, <<>>, 0, NoneV),
     File(NamePng, NoneV, ImageFailed, <<>>, 0, NoneV)}

MediaFiles ==
    {File(NameMp4, NoneV, NoneV, <<"a">>, 8, NoneV),
     File(NameMp4, NoneV, NoneV, <<>>, 8, NoneV),
     File(NameMp4, NoneV, NoneV, <<>>, 0, NoneV),
     File(NameMp3, NoneV, NoneV, <<"a", " ", "b">>, 0, NoneV),
     File(NameMp3, NoneV, NoneV, <<>>, 0, NoneV),
     File(NameMp3, NoneV, NoneV, GapText, 0, NoneV)}

OtherFiles ==
    {File(NameExe, NoneV, NoneV, <<>>, 0, NoneV),
     File(NameExe, SaveFailed, NoneV, <<>>, 0, NoneV),
     File(NamePdf, SaveFailed, NoneV, <<"a">>, 0, NoneV),
     File(NameNoExt, NoneV, NoneV, <<>>, 0, NoneV),
     File(<<>>, NoneV, NoneV, <<>>, 0, NoneV)}

Files == TextFiles \cup ImageFiles \cup MediaFiles \cup OtherFiles

\* the files that come first in the batches of several files
LeadFiles ==
    {File(NamePdf, SaveFailed, NoneV, <<"a">>, 0, NoneV),
     File(NamePdf, NoneV, ExtractFailed, <<>>, 0, NoneV),
     File(NameExe, NoneV, NoneV, <<>>, 0, NoneV),
     File(<<>>, NoneV, NoneV, <<>>, 0, NoneV),
     File(NamePng, NoneV, NoneV, <<"a">>, 0, NoneV)}

\* an upload batch: up to MaxBatch files, the last one any file
Batches ==
    {<<>>} \cup
    UNION {{lead \o <<f>> : lead \in [1..n -> LeadFiles], f \in Files} :
              n \in 0..(MaxBatch - 1)}

\* n uploads of an image, each described by the text description
Images(n, description) ==
    [k \in 1..n |-> File(NamePng, NoneV, NoneV, description, 0, NoneV)]

ImageBatches ==
    {Images(m, <<" ">>) \o Images(n, <<"a">>) :
        m \in 0..MaxBlankImgs, n \in 0..MaxDocImgs} \ {<<>>}

\* the media files given to the describers, with every outcome of their
\* collaborators
VisionOutcomes == {VisionOk, VisionNone, VisionRaise(<<"4", "2", "9">>)}

ImageInputs ==
    {[File(NamePng, NoneV, fail, raw, 0, add) EXCEPT !.vision[1] = v] :
        fail \in {NoneV, ImageFailed}, raw \in {<<"a">>, <<>>},
        add \in {NoneV, AddFailed, NoMessage}, v \in VisionOutcomes}

TextInputs ==
    {File(NamePdf, NoneV, fail, raw, 0, add) :
        fail \in {NoneV, ExtractFailed}, raw \in {<<"a">>, <<" ">>, <<>>},
        add \in {NoneV, AddFailed, NoMessage}}

VideoInputs ==
    {[File(NameMp4, NoneV, NoneV, raw, frames, add)
         EXCEPT !.vision = v, !.unlink = unlink] :
        raw \in {<<"a">>, <<>>}, frames \in {0, 3, NUM_FRAMES},
        add \in {NoneV, AddFailed}, v \in [1..3 -> VisionOutcomes],
        unlink \in {{}, {0}}}

\* the text of the j-th segment
SegmentLetters == <<"a", "b", "c", "d", "e", "f">>
SegmentText(j) == <<SegmentLetters[j]>>

Durations == {0, 45, MaxSeconds}
Sizes == {GOOGLE_LIMIT_MB * MB, GOOGLE_LIMIT_MB * MB + 1,
          WHISPER_LIMIT_MB * MB, WHISPER_LIMIT_MB * MB + 1, 25 * MB}
WhisperOutcomes ==
    {w \in [1..segment_count(MaxSeconds, WHISPER_SEGMENT_SECONDS) ->
               {SaidText(SegmentText(j)) : j \in 1..6} \cup {CallRaised(<<"5", "0", "0">>)}] :
        \A j \in DOMAIN w : w[j][1] = "text" => w[j][2] = SegmentText(j)}
GoogleOutcomes ==
    {g \in [1..segment_count(MaxSeconds, GOOGLE_SEGMENT_SECONDS) ->
               {SaidText(SegmentText(j)) : j \in 1..6}
                  \cup {Unrecognized, ServiceError(<<"5", "0", "3">>),
                        CallRaised(<<"t", "i", "m", "e", "d", " ", "o", "u", "t">>)}] :
        \A j \in DOMAIN g : g[j][1] = "text" => g[j][2] = SegmentText(j)}

Audio(convert, size, seconds, split, whisper, google) ==
    [File(NameMp3, NoneV, NoneV, <<>>, 0, NoneV)
        EXCEPT !.convert = convert, !.size = size, !.seconds = seconds,
               !.split = split, !.whisper = whisper, !.google = google]

AudioInputs ==
    {Audio(NoneV, size, seconds, NoneV, w, g) :
        size \in Sizes, seconds \in Durations,
        w \in WhisperOutcomes, g \in GoogleOutcomes}
    \cup
    {Audio(NoneV, 25 * MB, MaxSeconds, IntV(1), w,
           [j \in 1..segment_count(MaxSeconds, GOOGLE_SEGMENT_SECONDS) |-> o]) :
        w \in WhisperOutcomes, o \in {SaidText(<<"a">>), Unrecognized}}
    \cup
    {Audio(convert, size, 45, NoneV, w, NoneV) :
        convert \in {NoneV, <<"f", "f", "m", "p", "e", "g", " ", "f", "a", "i", "l", "e", "d">>}, size \in {MB, 25 * MB},
        w \in WhisperOutcomes}

\* a recording whose transcript is a line break only
SilentInputs ==
    {[File(NameMp3, NoneV, NoneV, <<"\n">>, 0, add) EXCEPT !.seconds = 45] :
        add \in {NoneV, AddFailed, NoMessage}}

MediaInputs ==
    ImageInputs \cup VideoInputs \cup AudioInputs \cup TextInputs \cup SilentInputs

ChatBodies ==
    {[json |-> FALSE, message |-> ""], [json |-> TRUE, message |-> ""],
     [json |-> TRUE, message |-> "q1"], [json |-> TRUE, message |-> "q2"]}

Answers == {"answer", "Error generating response: Connection error."}

YoutubeBodies ==
    {[json |-> FALSE, url |-> <<>>], [json |-> TRUE, url |-> <<>>],
     [json |-> TRUE, url |-> <<"y">>]}

YoutubeOutcomes ==
    {[fail |-> NoneV, raw |-> <<"a">>, add |-> NoneV],
     [fail |-> NoneV, raw |-> GapText, add |-> NoneV],
     [fail |-> NoneV, raw |-> <<" ">>, add |-> NoneV],
     [fail |-> StrV("Error processing YouTube video: download failed"),
      raw |-> <<>>, add |-> NoneV],
     [fail |-> NoneV, raw |-> <<"a">>, add |-> AddFailed]}

(***************************************************************************)
(* Specifications.                                                         *)
(***************************************************************************)
RegistryInit ==
    /\ session = [c \in Clients |->
                     [sid |-> FALSE, chat_history |-> <<>>, processed_files |-> <<>>]]
    /\ dbKeys = {}
    /\ dbs = [c \in Clients |-> <<>>]
    /\ llmKeys = {}
    /\ req = [kind |-> "none"]
    /\ resp = [success |-> TRUE]
    /\ calls = <<>>
    /\ disk = {}
    /\ made = {}

\* start-up with chromadb clients that each have a system of their own
AppInit ==
    /\ RegistryInit
    /\ chroma = [shared |-> FALSE, stale |-> {}]

MediaIdle ==
    /\ argFile = File(<<>>, NoneV, NoneV, <<>>, 0, NoneV)
    /\ retMedia = NotCalled

ChunkIdle ==
    /\ argText = <<>>
    /\ argSize = CHUNK_SIZE
    /\ argOverlap = CHUNK_OVERLAP
    /\ retChunks = NotCalled
    /\ retInline = NotCalled

\* the application, one session, from start-up
Init == AppInit /\ ChunkIdle /\ MediaIdle /\ api_key = KeyOpenAI

ChatRequest(c) ==
    /\ Len(session[c].chat_history) < MaxTurns
    /\ \E body \in ChatBodies, answer \in Answers :
         \E q1 \in QueryOutcomes(dbs[c], 15), q2 \in QueryOutcomes(dbs[c], 20) :
            ApiChat(c, body, q1, q2, answer)

\* material is uploaded into a session that has no processed file and no
\* transcript yet; questions and clears follow in any order
Fresh(c) ==
    /\ session[c].processed_files = <<>>
    /\ session[c].chat_history = <<>>

Next ==
    \E c \in {1} :
        \/ /\ Fresh(c)
           /\ \E files \in Batches : ApiProcessFiles(c, files)
        \/ /\ Fresh(c)
           /\ \E body \in YoutubeBodies, y \in YoutubeOutcomes :
                 ApiProcessYoutube(c, body, y)
        \/ ChatRequest(c)
        \/ ApiClearDatabase(c)
        \/ Index(c)

Spec == Init /\ [][Next]_vars

\* the chunker on every text, size and overlap within the bounds
ChunkInit ==
    /\ AppInit
    /\ argText \in Texts
    /\ argSize \in 1..MaxSize
    /\ argOverlap \in 0..(argSize - 1)
    /\ retChunks = NotCalled
    /\ retInline = NotCalled
    /\ MediaIdle
    /\ api_key = KeyOpenAI

ChunkNext == CallChunkText \/ CallInlineChunks

SpecChunk == ChunkInit /\ [][ChunkNext]_vars

\* retrieval over stores of image descriptions, blank or not
RetrievalNext ==
    \E c \in {1} :
        \/ \E files \in ImageBatches :
              /\ session[c].processed_files = <<>>
              /\ ApiProcessFiles(c, files)
        \/ ChatRequest(c)
        \/ ApiClearDatabase(c)

SpecRetrieval == Init /\ [][RetrievalNext]_vars

\* the describers on every media file and key, called directly and through
\* an upload of the file
MediaInit ==
    /\ AppInit
    /\ ChunkIdle
    /\ api_key \in ApiKeys
    /\ argFile \in MediaInputs
    /\ retMedia = NotCalled

MediaNext ==
    \/ CallAnalyzeVideoFrames
    \/ CallTranscribeAudio
    \/ CallProcessFile
    \/ /\ Fresh(1)
       /\ ApiProcessFiles(1, <<argFile>>)
    \/ ApiClearDatabase(1)

SpecMedia == MediaInit /\ [][MediaNext]_vars

\* the splitter on recordings of every duration up to MaxSeconds seconds,
\* whole or with half a second more, with and without moviepy
SplitInputs ==
    {[File(NameMp3, NoneV, NoneV, <<>>, 0, NoneV)
         EXCEPT !.seconds = seconds, !.millis = millis, !.split = split] :
        seconds \in 0..MaxSeconds, millis \in {0, 500}, split \in {NoneV, IntV(0)}}

SplitInit ==
    /\ AppInit
    /\ ChunkIdle
    /\ api_key = KeyOpenAI
    /\ argFile \in SplitInputs
    /\ retMedia = NotCalled

SplitNext == CallSplitAudio

SpecSplit == SplitInit /\ [][SplitNext]_vars

\* two browser sessions on one server process, with either kind of chromadb
\* client
SessionFiles ==
    {File(NamePdf, NoneV, NoneV, <<"a">>, 0, NoneV),
     File(NamePng, NoneV, NoneV, <<"b">>, 0, NoneV)}

SessionsInit ==
    /\ RegistryInit
    /\ chroma \in {[shared |-> b, stale |-> {}] : b \in BOOLEAN}
    /\ ChunkIdle
    /\ MediaIdle
    /\ api_key = KeyOpenAI

\* material is uploaded into a session that lists no processed file, before
\* or after its questions
SessionsNext ==
    \E c \in Clients :
        \/ /\ session[c].processed_files = <<>>
           /\ \E f \in SessionFiles : ApiProcessFiles(c, <<f>>)
        \/ /\ session[c].processed_files = <<>>
           /\ ApiProcessYoutube(c, [json |-> TRUE, url |-> <<"y">>],
                                [fail |-> NoneV, raw |-> <<"c">>, add |-> NoneV])
        \/ /\ Len(session[c].chat_history) < MaxTurns
           /\ \E body \in ChatBodies \ {[json |-> TRUE, message |-> "q2"]} :
              \E q1 \in QueryOutcomes(dbs[c], 15), q2 \in QueryOutcomes(dbs[c], 20) :
                 ApiChat(c, body, q1, q2, "answer")
        \/ ApiClearDatabase(c)
        \/ Index(c)

SpecSessions == SessionsInit /\ [][SessionsNext]_vars

(***************************************************************************)
(* Vocabulary of the properties.                                           *)
(***************************************************************************)
RECURSIVE Flatten(_)
Flatten(seqs) == IF seqs = <<>> THEN <<>> ELSE Head(seqs) \o Flatten(Tail(seqs))

\* s without its first n characters
DropFirst(s, n) == SubSeq(s, n + 1, Len(s))

\* the first chunk whole, every later chunk without its first o characters
Rebuilt(chunks, o) ==
    Flatten([k \in 1..Len(chunks) |->
                IF k = 1 THEN chunks[k] ELSE DropFirst(chunks[k], o)])

\* the last o characters of a are the first o characters of b
SharesExactly(a, b, o) ==
    /\ Len(a) >= o
    /\ Len(b) >= o
    /\ SubSeq(a, Len(a) - o + 1, Len(a)) = SubSeq(b, 1, o)

IsBlank(t) == \A k \in 1..Len(t) : t[k] \in Whitespace
NonBlankCount(documents) ==
    Cardinality({k \in 1..Len(documents) : ~IsBlank(documents[k])})

IsAdd(e) == e.op = "add"
IsQuery(e) == e.op = "query"
IsGenerate(e) == e.op = "generate_response"
Adds == SelectSeq(calls, IsAdd)
Queries == SelectSeq(calls, IsQuery)
LlmCalled == \E k \in 1..Len(calls) : IsGenerate(calls[k])

\* the last request is a chat request that carries a message
ChatWithMessage == req.kind = "chat" /\ req.body.json /\ req.body.message # ""

\* the names of the files of a batch that have one, in upload order
RECURSIVE NamedFiles(_)
NamedFiles(files) ==
    IF files = <<>> THEN <<>>
    ELSE IF Head(files).filename = <<>> THEN NamedFiles(Tail(files))
    ELSE <<Head(files).filename>> \o NamedFiles(Tail(files))

LastEntries(c, n) ==
    SubSeq(session[c].processed_files,
           Len(session[c].processed_files) - n + 1,
           Len(session[c].processed_files))

(***************************************************************************)
(* C1.  chunk_text(T, S, O) covers T, every chunk is at most S long, and   *)
(* consecutive chunks share exactly O characters except possibly the pair  *)
(* that ends with the last chunk.                                          *)
(***************************************************************************)
C1_Covers ==
    retChunks.done =>
        /\ Rebuilt(retChunks.chunks, argOverlap) = argText
        /\ \A k \in 1..Len(retChunks.chunks) : Len(retChunks.chunks[k]) <= argSize

\* C1 as stated: every pair but the last shares exactly O characters
C1_AsStated ==
    /\ C1_Covers
    /\ retChunks.done =>
         \A k \in 1..(Len(retChunks.chunks) - 2) :
            SharesExactly(retChunks.chunks[k], retChunks.chunks[k + 1], argOverlap)

\* C1 amended: chunk_text covers T with chunks of length at most S, and a
\* pair of consecutive chunks shares exactly O characters whenever its
\* earlier chunk has the full length S; the pairs whose earlier chunk is
\* shorter are all at the end, and only the last pair when 2*O <= S
C1_OverlapOfFullChunks ==
    /\ C1_Covers
    /\ retChunks.done =>
         /\ \A k \in 1..(Len(retChunks.chunks) - 1) :
               Len(retChunks.chunks[k]) = argSize =>
                  SharesExactly(retChunks.chunks[k], retChunks.chunks[k + 1],
                                argOverlap)
         /\ 2 * argOverlap <= argSize =>
               \A k \in 1..(Len(retChunks.chunks) - 2) :
                  SharesExactly(retChunks.chunks[k], retChunks.chunks[k + 1],
                                argOverlap)

C1_Witness ==
    /\ retChunks.done
    /\ argOverlap >= 1
    /\ Len(retChunks.chunks) >= 3
    /\ Len(retChunks.chunks[Len(retChunks.chunks)]) < argSize

(***************************************************************************)
(* C2.  A non-empty text no longer than the chunk size gives exactly one   *)
(* chunk, the whole text, from chunk_text and from the chunking loop of    *)
(* process_text_document.                                                  *)
(***************************************************************************)
C2_OneChunkWithin(limit) ==
    (argText # <<>> /\ Len(argText) <= limit) =>
        /\ retChunks.done => retChunks.chunks = <<argText>>
        /\ (retInline.done /\ retInline.staged.error = NoneV) =>
              retInline.staged.chunks = <<argText>>

\* C2 as stated: len(T) <= S
C2_AsStated == C2_OneChunkWithin(argSize)

\* C2 amended: a non-empty text with len(T) <= S - O gives exactly one
\* chunk, the whole text, from both; for S - O < len(T) <= S the first
\* chunk is the whole text and further chunks follow it
C2_OneChunkWithinStep ==
    /\ C2_OneChunkWithin(argSize - argOverlap)
    /\ (argText # <<>> /\ Len(argText) <= argSize) =>
          /\ retChunks.done => Head(retChunks.chunks) = argText
          /\ (retInline.done /\ retInline.staged.error = NoneV) =>
                Head(retInline.staged.chunks) = argText
    /\ (Len(argText) > argSize - argOverlap /\ retChunks.done) =>
          Len(retChunks.chunks) >= 2

C2_Witness ==
    /\ retChunks.done
    /\ retInline.done
    /\ retInline.staged.error = NoneV
    /\ argOverlap >= 1
    /\ Len(argText) >= 2
    /\ Len(argText) <= argSize - argOverlap
    /\ retInline.staged.chunks = <<argText>>

(***************************************************************************)
(* C3.  Ingesting a text document whose extracted text is 2400             *)
(* non-whitespace characters writes exactly 3 chunks, of lengths 1000,     *)
(* 1000 and 600, with chunk indices 0, 1, 2 and type "text", and returns   *)
(* the count 3 with no error.                                              *)
(***************************************************************************)
\* the last request uploaded one text document of 2400 non-whitespace
\* characters, and no collaborator failed on it
C3_Scenario ==
    /\ req.kind = "process_files"
    /\ Len(req.files) = 1
    /\ lower(splitext_ext(req.files[1].filename)) \in TextExtensions
    /\ req.files[1].save = NoneV
    /\ req.files[1].fail = NoneV
    /\ req.files[1].add = NoneV
    /\ Len(strip(req.files[1].raw)) = 2400
    /\ \A k \in 1..Len(req.files[1].raw) : req.files[1].raw[k] \notin Whitespace

C3_Stores(lengths) ==
    C3_Scenario =>
        /\ Len(Adds) = 1
        /\ Adds[1].ok
        /\ [k \in 1..Len(Adds[1].documents) |-> Len(Adds[1].documents[k])] = lengths
        /\ [k \in 1..Len(Adds[1].metadatas) |-> Adds[1].metadatas[k].chunk] = <<0, 1, 2>>
        /\ \A k \in 1..Len(Adds[1].metadatas) : Adds[1].metadatas[k].type = "text"
        /\ Len(dbs[req.client]) >= 3
        /\ SubSeq(dbs[req.client], Len(dbs[req.client]) - 2, Len(dbs[req.client]))
              = [k \in 1..3 |-> [document |-> Adds[1].documents[k],
                                 metadata |-> Adds[1].metadatas[k]]]
        /\ resp = [success |-> TRUE, processed_count |-> 1, total_count |-> 1]
        /\ LastEntries(req.client, 1)
              = <<[name |-> req.files[1].filename, status |-> "success",
                   message |-> ChunksMessage(IntV(3))]>>

\* C3 as stated: lengths 1000, 1000 and 600
C3_AsStated == C3_Stores(<<1000, 1000, 600>>)

\* C3 amended: the three chunks have lengths 1000, 1000 and 800 (the
\* windows start at 0, 800 and 1600); the rest as stated
C3_ThreeChunks == C3_Stores(<<1000, 1000, 800>>)

C3_Witness ==
    /\ C3_Scenario
    /\ Len(dbs[req.client]) = 3
    /\ Len(dbs[req.client][3].document) = 800

(***************************************************************************)
(* C4.  When the store holds more than 10 chunks and the first query       *)
(* (K=15) yields fewer than 5 non-empty documents, a second query with     *)
(* K=20 is issued before the answer is composed.                           *)
(***************************************************************************)
\* the last request is a chat whose first query returned
C4_FirstQueryReturned ==
    /\ ChatWithMessage
    /\ Queries # <<>>
    /\ Queries[1].n_results = 15
    /\ Queries[1].raised = NoneV

C4_WiderQueryBeforeAnswer ==
    (/\ C4_FirstQueryReturned
     /\ Len(dbs[req.client]) > 10
     /\ NonBlankCount(Queries[1].documents) < 5)
    => /\ Len(calls) >= 2
       /\ IsQuery(calls[1])
       /\ IsQuery(calls[2])
       /\ calls[2].n_results = 20
       /\ \A k \in 1..Len(calls) : IsGenerate(calls[k]) => k > 2

C4_Witness ==
    /\ C4_FirstQueryReturned
    /\ Len(dbs[req.client]) > 15
    /\ NonBlankCount(Queries[1].documents) = 4
    /\ Len(Queries) = 2
    /\ NonBlankCount(Queries[2].documents) = 5
    /\ LlmCalled

(***************************************************************************)
(* C5.  When the store holds 10 or fewer chunks, a chat request issues     *)
(* exactly one store query (K=15), whatever it returns, and never a query  *)
(* with K=20.  (A request without a message is answered before any         *)
(* retrieval.)                                                             *)
(***************************************************************************)
C5_SingleQuery ==
    (req.kind = "chat" /\ Len(dbs[req.client]) <= 10) =>
        /\ \A k \in 1..Len(Queries) : Queries[k].n_results # 20
        /\ ChatWithMessage =>
              /\ Len(Queries) = 1
              /\ Queries[1].n_results = 15

C5_Witness ==
    /\ C4_FirstQueryReturned
    /\ Len(dbs[req.client]) = 10
    /\ NonBlankCount(Queries[1].documents) < 5
    /\ NonBlankCount(Queries[1].documents) > 0
    /\ Len(Queries) = 1

(***************************************************************************)
(* C6.  If no non-empty document remains after retrieval, the language     *)
(* model is not called and the response is a fixed text that does not      *)
(* depend on the question.                                                 *)
(***************************************************************************)
\* retrieval of the last request finished, and the result set in use (that
\* of the last query) has no non-empty document
C6_NothingRetrieved ==
    /\ ChatWithMessage
    /\ Queries # <<>>
    /\ \A k \in 1..Len(Queries) : Queries[k].raised = NoneV
    /\ NonBlankCount(Queries[Len(Queries)].documents) = 0

C6_FixedAnswerWithoutModel ==
    C6_NothingRetrieved =>
        /\ ~LlmCalled
        /\ resp.success
        /\ resp.response = IF Queries[Len(Queries)].documents = <<>>
                           THEN UploadFirstMessage
                           ELSE NoRelevantMessage

C6_Witness ==
    /\ C6_NothingRetrieved
    /\ Len(Queries) = 2
    /\ resp.response = NoRelevantMessage

(***************************************************************************)
(* C7.  Every chat request that carries a non-empty message appends        *)
(* exactly one user turn (the message verbatim) and then exactly one       *)
(* assistant turn, whether generation succeeds, the model call fails (its  *)
(* error text is the assistant turn) or the store query raises (the error  *)
(* of the response is the assistant turn).                                 *)
(***************************************************************************)
C7_TurnsOfStep ==
    (req'.kind = "chat" /\ req'.body.json /\ req'.body.message # "") =>
        /\ Len(session'[req'.client].chat_history)
              = Len(session[req'.client].chat_history) + 2
        /\ SubSeq(session'[req'.client].chat_history, 1,
                  Len(session[req'.client].chat_history))
              = session[req'.client].chat_history
        /\ session'[req'.client].chat_history[Len(session[req'.client].chat_history) + 1]
              = [role |-> "user", content |-> req'.body.message]
        /\ session'[req'.client].chat_history[Len(session[req'.client].chat_history) + 2]
              = [role |-> "assistant",
                 content |-> IF resp'.success THEN resp'.response ELSE resp'.error]
        /\ (\E k \in 1..Len(calls') : IsGenerate(calls'[k])) =>
              resp'.success /\ resp'.response = req'.answer
        /\ (\E k \in 1..Len(calls') : IsQuery(calls'[k]) /\ calls'[k].raised # NoneV) =>
              ~resp'.success

C7_UserThenAssistant == [][C7_TurnsOfStep]_vars

C7_Witness ==
    /\ ChatWithMessage
    /\ LlmCalled
    /\ req.answer = "Error generating response: Connection error."
    /\ session[req.client].chat_history
          = <<[role |-> "user", content |-> req.body.message],
              [role |-> "assistant",
               content |-> "Error generating response: Connection error."]>>

(***************************************************************************)
(* C8.  After the clear action the session's store count is 0 and its      *)
(* transcript and processed-files list are empty, whatever preceded; and   *)
(* the next chat request of the session (one that carries a message, with  *)
(* the store answering the query) returns the "upload some documents       *)
(* first" message without calling the language model.                      *)
(***************************************************************************)
C8_ClearStep ==
    /\ req'.kind = "clear_database" =>
          /\ Len(dbs'[req'.client]) = 0
          /\ session'[req'.client].chat_history = <<>>
          /\ session'[req'.client].processed_files = <<>>
          /\ resp'.success
    /\ (/\ req.kind = "clear_database"
        /\ req'.kind = "chat"
        /\ req'.client = req.client
        /\ req'.body.json
        /\ req'.body.message # ""
        /\ \A k \in 1..Len(calls') : IsQuery(calls'[k]) => calls'[k].raised = NoneV)
       => /\ resp'.success
          /\ resp'.response = UploadFirstMessage
          /\ \A k \in 1..Len(calls') : ~IsGenerate(calls'[k])

C8_ClearResets == [][C8_ClearStep]_vars

C8_Witness ==
    /\ req.kind = "clear_database"
    /\ \E k \in 1..Len(calls) : calls[k].op = "delete_collection"
    /\ req.client \in dbKeys
    /\ dbs[req.client] = <<>>

(***************************************************************************)
(* C9.  In a batch, a failure while handling one file never prevents the   *)
(* files after it from being processed: every file with a non-empty name   *)
(* gets its own processed-file entry, in upload order, and the request     *)
(* reports success with counts.                                            *)
(***************************************************************************)
C9_EveryFileReported ==
    (req.kind = "process_files" /\ req.files # <<>>) =>
        /\ resp.success
        /\ Len(session[req.client].processed_files) >= Len(NamedFiles(req.files))
        /\ [k \in 1..Len(NamedFiles(req.files)) |->
               LastEntries(req.client, Len(NamedFiles(req.files)))[k].name]
              = NamedFiles(req.files)

(***************************************************************************)
(* C10.  A file whose extension, compared case-insensitively, is not one   *)
(* of the ten supported ones is reported with an "Unsupported format"      *)
(* error entry, no extractor or describer is invoked for it and the store  *)
(* is not written for it.                                                  *)
(***************************************************************************)
SupportedExtensions ==
    {EXT_PDF, EXT_DOCX, EXT_PPTX, EXT_TXT, EXT_MD, EXT_PNG, EXT_JPG, EXT_JPEG,
     EXT_MP4, EXT_MP3}

C10_UnsupportedReported ==
    req.kind = "process_files" =>
        \A i \in 1..Len(req.files) :
            (/\ req.files[i].filename # <<>>
             /\ lower(splitext_ext(req.files[i].filename)) \notin SupportedExtensions)
            => /\ \E k \in 1..Len(session[req.client].processed_files) :
                     session[req.client].processed_files[k]
                        = [name |-> req.files[i].filename, status |-> "error",
                           message |-> UnsupportedMessage(
                               lower(splitext_ext(req.files[i].filename)))]
               /\ \A k \in 1..Len(calls) :
                     calls[k].file = i => calls[k].op = "save"

(***************************************************************************)
(* Vocabulary of the media claims.                                         *)
(***************************************************************************)
IsVisionCall(e) == e.op = "vision_call"
\* the upload of one file that was saved, of the given extensions
UploadOf(extensions) ==
    /\ req.kind = "process_files"
    /\ Len(req.files) = 1
    /\ req.files[1].save = NoneV
    /\ lower(splitext_ext(req.files[1].filename)) \in extensions
\* the entry the upload left in the processed-files list
ReportedAs(status) ==
    /\ Len(session[req.client].processed_files) = 1
    /\ session[req.client].processed_files[1].name = req.files[1].filename
    /\ session[req.client].processed_files[1].status = status
ConfiguredModels == vision_models(handler_model_name(api_key, OPENAI_MODEL))
AnalyzeVideoFramesCalled ==
    retMedia.done /\ retMedia.fn = "analyze_video_frames"
Attempts == SelectSeq(retMedia.calls, IsVisionCall)
FrameFiles == {frame_path(SavedPath, k) : k \in 0..(NUM_FRAMES - 1)}

(***************************************************************************)
(* C11.  When the single vision call for an image fails, the image is      *)
(* reported as an error and nothing is written to the store.               *)
(***************************************************************************)
C11_FailedCallReported ==
    (/\ UploadOf(ImageExtensions)
     /\ req.files[1].fail = NoneV
     /\ req.files[1].vision[1] # VisionOk)
    => /\ ReportedAs("error")
       /\ Adds = <<>>
       /\ dbs[req.client] = <<>>

(***************************************************************************)
(* C12.  analyze_video_frames returns the "All vision models failed" text  *)
(* exactly when every model of the configured list has been attempted      *)
(* once, in list order, and every attempt has failed.                      *)
(***************************************************************************)
C12_SentinelOnlyAfterAll ==
    AnalyzeVideoFramesCalled =>
        /\ retMedia.result = AllModelsFailed
           <=> /\ [k \in 1..Len(Attempts) |-> Attempts[k].model] = ConfiguredModels
               /\ \A k \in 1..Len(Attempts) : argFile.vision[k] # VisionOk
        /\ (\E k \in 1..Len(Attempts) : argFile.vision[k] = VisionOk)
           => retMedia.result # AllModelsFailed

C12_Witness ==
    /\ AnalyzeVideoFramesCalled
    /\ Len(ConfiguredModels) = 3
    /\ Len(Attempts) = 3
    /\ argFile.vision[1] # argFile.vision[2]
    /\ retMedia.result = AllModelsFailed

(***************************************************************************)
(* C13.  When every vision model fails for a video, the video is reported  *)
(* as an error and nothing is written to the store.                        *)
(***************************************************************************)
C13_AllFailedReported ==
    (/\ UploadOf({EXT_MP4})
     /\ req.files[1].frames = NUM_FRAMES
     /\ \A k \in 1..Len(ConfiguredModels) : req.files[1].vision[k] # VisionOk)
    => /\ ReportedAs("error")
       /\ Adds = <<>>
       /\ dbs[req.client] = <<>>

(***************************************************************************)
(* C14.  analyze_video_frames tries the models in list order, a model only *)
(* when all models before it failed; it returns the response of the first  *)
(* model that succeeds and calls no model after that one.                  *)
(***************************************************************************)
C14_FirstSuccessWins ==
    AnalyzeVideoFramesCalled =>
        /\ Len(Attempts) <= Len(ConfiguredModels)
        /\ \A k \in 1..Len(Attempts) :
              /\ Attempts[k].model = ConfiguredModels[k]
              /\ \A m \in 1..(k - 1) : argFile.vision[m] # VisionOk
        /\ \A k \in 1..Len(ConfiguredModels) :
              (/\ argFile.vision[k] = VisionOk
               /\ \A m \in 1..(k - 1) : argFile.vision[m] # VisionOk)
              => /\ Len(Attempts) = k
                 /\ retMedia.result = argFile.raw

C14_Witness ==
    /\ AnalyzeVideoFramesCalled
    /\ Len(ConfiguredModels) = 3
    /\ argFile.vision[1] # VisionOk
    /\ argFile.vision[2] = VisionOk
    /\ argFile.vision[3] = VisionOk
    /\ Len(Attempts) = 2
    /\ retMedia.result = argFile.raw

(***************************************************************************)
(* C15.  When process_video_file returns, on every path, none of the frame *)
(* files it extracted remains on disk (no removal failing); and a removal  *)
(* that fails never turns a successful result into an error.               *)
(***************************************************************************)
C15_NoFrameLeft ==
    UploadOf({EXT_MP4}) =>
        /\ (req.files[1].frames = NUM_FRAMES /\ req.files[1].unlink = {})
           => disk \cap FrameFiles = {}
        /\ (/\ req.files[1].frames = NUM_FRAMES
            /\ req.files[1].vision[1] = VisionOk
            /\ req.files[1].raw # <<>>
            /\ req.files[1].add = NoneV)
           => ReportedAs("success")


(***************************************************************************)
(* Vocabulary of the transcription claims.                                 *)
(***************************************************************************)
TranscribeAudioCalled == retMedia.done /\ retMedia.fn = "transcribe_audio"
IsWhisper(e) == e.op = "whisper"
IsGoogle(e) == e.op = "google"
Whispers == SelectSeq(retMedia.calls, IsWhisper)
Googles == SelectSeq(retMedia.calls, IsGoogle)
SizeChecked(service) ==
    \E k \in 1..Len(retMedia.calls) :
        retMedia.calls[k].op = "getsize" /\ retMedia.calls[k].service = service
SplitInto(seconds) ==
    \E k \in 1..Len(retMedia.calls) :
        retMedia.calls[k].op = "split" /\ retMedia.calls[k].seconds = seconds
WavFile == temp_wav_path(SavedPath)
\* the segments a split of argFile hands to the loop
SegmentsOf(seconds) ==
    IF argFile.split = NoneV
    THEN [k \in 1..segment_count(argFile.seconds, seconds) |->
             chunk_path(WavFile, k - 1)]
    ELSE <<WavFile>>
PathsOf(entries) == [k \in 1..Len(entries) |-> entries[k].path]
\* the texts of the first n outcomes that are texts, in order
RECURSIVE SaidIn(_, _)
SaidIn(outcomes, n) ==
    IF n = 0 THEN <<>>
    ELSE IF outcomes[n][1] = "text"
    THEN Append(SaidIn(outcomes, n - 1), outcomes[n][2])
    ELSE SaidIn(outcomes, n - 1)
SegmentFiles == {chunk_path(WavFile, k) : k \in 0..5}

(***************************************************************************)
(* C16.  In segmented transcription, on the primary and on the secondary   *)
(* path, a segment whose transcription fails contributes nothing and does  *)
(* not stop the later segments from being attempted; the result is the     *)
(* transcripts of the successful segments joined with a single space in    *)
(* segment order.                                                          *)
(***************************************************************************)
C16_FailedSegmentsSkipped ==
    TranscribeAudioCalled =>
        /\ SplitInto(WHISPER_SEGMENT_SECONDS) =>
              LET n == Len(SegmentsOf(WHISPER_SEGMENT_SECONDS))
              IN  /\ PathsOf(Whispers) = SegmentsOf(WHISPER_SEGMENT_SECONDS)
                  /\ SaidIn(argFile.whisper, n) # <<>>
                     => retMedia.result = join_space(SaidIn(argFile.whisper, n))
        /\ SplitInto(GOOGLE_SEGMENT_SECONDS) =>
              LET n == Len(SegmentsOf(GOOGLE_SEGMENT_SECONDS))
              IN  /\ PathsOf(Googles) = SegmentsOf(GOOGLE_SEGMENT_SECONDS)
                  /\ SaidIn(argFile.google, n) # <<>>
                     => retMedia.result = join_space(SaidIn(argFile.google, n))

(***************************************************************************)
(* C17.  transcribe_audio splits the normalized file exactly when its size *)
(* exceeds the threshold of the service in use: above 20MB into 60-second  *)
(* segments on the primary service, above 10MB into 30-second segments on  *)
(* the secondary one; at or below the threshold one call on the whole file *)
(* is made.                                                                *)
(***************************************************************************)
C17_SplitsAboveThreshold ==
    TranscribeAudioCalled =>
        /\ SizeChecked("whisper") =>
              /\ SplitInto(60) <=> argFile.size > 20 * 1024 * 1024
              /\ SplitInto(60) => PathsOf(Whispers) = SegmentsOf(60)
              /\ ~SplitInto(60) => PathsOf(Whispers) = <<WavFile>>
        /\ SizeChecked("google") =>
              /\ SplitInto(30) <=> argFile.size > 10 * 1024 * 1024
              /\ ~SplitInto(30) => PathsOf(Googles) = <<WavFile>>
        /\ ~SizeChecked("whisper") => ~SplitInto(60) /\ Whispers = <<>>
        /\ ~SizeChecked("google") => ~SplitInto(30) /\ Googles = <<>>
        /\ \A k \in 1..Len(retMedia.calls) :
              retMedia.calls[k].op = "split"
              => retMedia.calls[k].seconds \in {30, 60}

C17_Witness ==
    /\ TranscribeAudioCalled
    /\ argFile.size = 25 * 1024 * 1024
    /\ argFile.seconds = MaxSeconds
    /\ SizeChecked("whisper")
    /\ SplitInto(60)
    /\ Len(Whispers) = segment_count(MaxSeconds, 60)
    /\ Len(Whispers) > 1
    /\ ~SizeChecked("google")

(***************************************************************************)
(* C18.  Every segment file created for a transcribe_audio call is deleted *)
(* by the time the call returns, whatever the outcome of each segment's    *)
(* transcription attempt, on both paths.                                   *)
(***************************************************************************)
C18_NoSegmentLeft ==
    TranscribeAudioCalled => disk \cap SegmentFiles = {}

(***************************************************************************)
(* C19.  When the transcription of an audio file fails entirely (every     *)
(* attempt made on the last service tried fails), the file is reported as  *)
(* an error and no chunk is written to the store.                          *)
(***************************************************************************)
C19_FailedTranscriptionReported ==
    (/\ UploadOf({EXT_MP3})
     /\ req.files[1].fail = NoneV
     /\ \E k \in 1..Len(calls) : calls[k].op \in {"whisper", "google"}
     /\ \A k \in 1..Len(calls) :
           calls[k].op \in {"whisper", "google"} => ~calls[k].ok)
    => /\ ReportedAs("error")
       /\ Adds = <<>>
       /\ dbs[req.client] = <<>>

(***************************************************************************)
(* C20.  Every chunk written to the store by any ingestion path carries a  *)
(* non-empty source (the uploaded file name, or the URL for YouTube) and   *)
(* the type of its path; within one ingestion call of the text, audio and  *)
(* YouTube paths the chunk indices are 0, 1, ..., n-1 in stored order,     *)
(* also when whitespace-only windows were dropped.                         *)
(***************************************************************************)
ContentTypes == {"text", "image", "video", "audio", "youtube"}
PathType(filename) ==
    IF lower(splitext_ext(filename)) \in TextExtensions THEN "text"
    ELSE IF lower(splitext_ext(filename)) \in ImageExtensions THEN "image"
    ELSE IF lower(splitext_ext(filename)) = EXT_MP4 THEN "video"
    ELSE "audio"
SourceOfAdd(e) ==
    IF req.kind = "process_youtube" THEN req.body.url
    ELSE req.files[e.file].filename
TypeOfAdd(e) ==
    IF req.kind = "process_youtube" THEN "youtube"
    ELSE PathType(req.files[e.file].filename)

C20_ChunksCarrySourceAndIndex ==
    /\ \A c \in Clients : \A k \in 1..Len(dbs[c]) :
          /\ dbs[c][k].metadata.source # <<>>
          /\ dbs[c][k].metadata.type \in ContentTypes
    /\ \A k \in 1..Len(calls) :
          IsAdd(calls[k]) =>
              /\ Len(calls[k].metadatas) = Len(calls[k].documents)
              /\ SourceOfAdd(calls[k]) # <<>>
              /\ \A j \in 1..Len(calls[k].metadatas) :
                    /\ calls[k].metadatas[j].source = SourceOfAdd(calls[k])
                    /\ calls[k].metadatas[j].type = TypeOfAdd(calls[k])
                    /\ TypeOfAdd(calls[k]) \in {"text", "audio", "youtube"}
                       => calls[k].metadatas[j].chunk = j - 1

C20_Witness ==
    /\ req.kind = "process_files"
    /\ Len(req.files) = 2
    /\ \E k \in 1..Len(calls) :
          /\ IsAdd(calls[k])
          /\ calls[k].ok
          /\ calls[k].file = 2
          /\ TypeOfAdd(calls[k]) = "audio"
          /\ Len(calls[k].documents) = 2
          /\ calls[k].documents[2] = Rep(" ", 200) \o <<"b">>
          /\ calls[k].metadatas[2].chunk = 1
    /\ Len(dbs[req.client]) = 3

(***************************************************************************)
(* C21.  Every process_* call returns a pair of which exactly one of the   *)
(* payload and the error is populated, also when a collaborator raises;    *)
(* and an uploaded file is listed as a success exactly when documents were *)
(* written to the store for it.                                            *)
(***************************************************************************)
ProcessFileCalled == req.kind = "process_file"
DocumentsWritten ==
    \E k \in 1..Len(calls) :
        IsAdd(calls[k]) /\ calls[k].ok /\ calls[k].documents # <<>>
ListedAsSuccess ==
    \E k \in 1..Len(session[1].processed_files) :
        session[1].processed_files[k].status = "success"

C21_ExactlyOnePopulated ==
    /\ ProcessFileCalled => (Truthy(resp.result) <=> ~Truthy(resp.error))
    /\ (req.kind = "process_files" /\ Len(req.files) = 1)
       => (ListedAsSuccess <=> DocumentsWritten)
(***************************************************************************)
(* C22.  Sessions do not share store state: a request of one session       *)
(* (ingestion, chat, clear or page load) never changes what the store of   *)
(* another session holds, so neither its chunk count nor its query         *)
(* results.                                                                *)
(***************************************************************************)
\* what count_documents and query of session d work on
StoreSeenBy(d) == IF d \in chroma.stale THEN NoneV ELSE TextV(dbs[d])

C22_SessionsIsolated ==
    [][\A d \in Clients :
          d # req'.client =>
              StoreSeenBy(d)' = StoreSeenBy(d)]_vars
(***************************************************************************)
(* C23.  The transcript of a session is append-only: over every request    *)
(* other than the session's own clear (chat, ingestion, page load, and     *)
(* every request of another session) the transcript before is a prefix of  *)
(* the transcript after; only the clear action empties it.                 *)
(***************************************************************************)
IsPrefix(a, b) == Len(a) <= Len(b) /\ SubSeq(b, 1, Len(a)) = a
ClearOf(c) == req.kind = "clear_database" /\ req.client = c

C23_AppendOnly ==
    [][\A c \in Clients :
          /\ ~ClearOf(c)' =>
                 IsPrefix(session[c].chat_history, session'[c].chat_history)
          /\ (session[c].chat_history # <<>> /\ session'[c].chat_history = <<>>)
                 => ClearOf(c)']_vars

\* a chat request has appended two turns to a transcript that held one, in
\* a session that has ingested a file
C23_Witness ==
    /\ req.kind = "chat"
    /\ Len(session[req.client].chat_history) = 3
    /\ session[req.client].processed_files # <<>>
(***************************************************************************)
(* C24.  A batch that completes appends exactly one processed-file entry,  *)
(* of status success or error, per file with a non-empty name, in upload   *)
(* order; processed_count is the number of success entries the batch       *)
(* appended, total_count the number of files submitted, and                *)
(* processed_count <= total_count.  (The batches of Spec go to a session   *)
(* whose processed-files list is empty.)                                   *)
(***************************************************************************)
BatchCompleted ==
    /\ req.kind = "process_files"
    /\ resp.success
BatchEntries == session[req.client].processed_files

C24_OneEntryPerNamedFile ==
    BatchCompleted =>
        /\ Len(BatchEntries) = Len(NamedFiles(req.files))
        /\ \A k \in 1..Len(BatchEntries) :
              /\ BatchEntries[k].name = NamedFiles(req.files)[k]
              /\ BatchEntries[k].status \in {"success", "error"}
        /\ resp.processed_count =
              Cardinality({k \in 1..Len(BatchEntries) :
                              BatchEntries[k].status = "success"})
        /\ resp.total_count = Len(req.files)
        /\ resp.processed_count <= resp.total_count

\* a completed batch with a nameless file and a file that is ingested
C24_Witness ==
    /\ BatchCompleted
    /\ Len(req.files) > Len(BatchEntries)
    /\ \E k \in 1..Len(BatchEntries) : BatchEntries[k].status = "success"
(***************************************************************************)
(* C25.  For every text T and S > O >= 0, chunk_text returns exactly       *)
(* ceil(len(T) / (S - O)) chunks, chunk k (from 0) being                   *)
(* T[k*(S-O) : k*(S-O)+S]; the empty text gives the empty sequence.  (The  *)
(* result is a function of T, S and O alone, and the loop ends because the *)
(* offset grows by S - O >= 1.)                                            *)
(***************************************************************************)
CeilDiv(a, b) == (a + b - 1) \div b

C25_CountAndWindows ==
    retChunks.done =>
        LET step == argSize - argOverlap
            n == CeilDiv(Len(argText), step)
        IN  /\ Len(retChunks.chunks) = n
            /\ \A k \in 0..(n - 1) :
                  retChunks.chunks[k + 1] =
                      SubSeq(argText, k * step + 1,
                             Min(k * step + argSize, Len(argText)))
            /\ argText = <<>> => retChunks.chunks = <<>>

\* three or more chunks with an overlap, the last one cut by the end of the
\* text
C25_Witness ==
    /\ retChunks.done
    /\ argOverlap >= 1
    /\ Len(retChunks.chunks) >= 3
    /\ Len(retChunks.chunks[Len(retChunks.chunks)]) < argSize
    /\ Len(retChunks.chunks[1]) = argSize
(***************************************************************************)
(* C26.  The two chunking policies differ only by the whitespace filter:   *)
(* for every text, the chunk list the inline loop of the ingestion paths   *)
(* builds is the result of chunk_text on the same text, size and overlap   *)
(* without its whitespace-only chunks, in the same order.  (Where the      *)
(* ingestion path rejects the text before the loop, chunk_text has no      *)
(* other chunks than whitespace-only ones.)                                *)
(***************************************************************************)
NotBlank(chunk) == ~IsBlank(chunk)

C26_InlineIsFilteredChunkText ==
    (retChunks.done /\ retInline.done) =>
        IF retInline.staged.error = NoneV
        THEN retInline.staged.chunks = SelectSeq(retChunks.chunks, NotBlank)
        ELSE SelectSeq(retChunks.chunks, NotBlank) = <<>>

\* a whitespace-only window between two windows that are kept
C26_Witness ==
    /\ retChunks.done
    /\ retInline.done
    /\ retInline.staged.error = NoneV
    /\ Len(retInline.staged.chunks) >= 2
    /\ \E k \in 2..(Len(retChunks.chunks) - 1) :
          /\ IsBlank(retChunks.chunks[k])
          /\ NotBlank(retChunks.chunks[k - 1])
          /\ NotBlank(retChunks.chunks[k + 1])
(***************************************************************************)
(* C27.  A chat request changes neither the store (of any session) nor the *)
(* session's processed-files list; an ingestion request (file batch or     *)
(* YouTube) does not change the session's transcript; and the chunk count  *)
(* of a store never decreases over a request that is not a clear.          *)
(***************************************************************************)
Ingestion == req.kind \in {"process_files", "process_youtube"}

C27_FrameOfChatAndIngestion ==
    [][/\ (req.kind = "chat")' =>
             /\ dbs' = dbs
             /\ session'[req'.client].processed_files
                   = session[req'.client].processed_files
       /\ Ingestion' =>
             session'[req'.client].chat_history
                = session[req'.client].chat_history
       /\ (req.kind # "clear_database")' =>
             \A d \in Clients : Len(dbs'[d]) >= Len(dbs[d])]_vars

\* an ingestion that wrote the store of a session whose transcript holds
\* turns, which it left as they were
C27_Witness ==
    /\ Ingestion
    /\ resp.success
    /\ \E k \in 1..Len(calls) : IsAdd(calls[k]) /\ calls[k].ok
    /\ Len(session[req.client].chat_history) >= 2
    /\ chroma.stale = {}
(***************************************************************************)
(* C28.  After any sequence of chat requests (with a message, with an      *)
(* empty message, with a non-JSON body) and clears, the transcript of a    *)
(* session alternates user, assistant, user, assistant, ... starting with  *)
(* a user turn.                                                            *)
(***************************************************************************)
C28_Alternates ==
    \A c \in Clients :
        \A k \in 1..Len(session[c].chat_history) :
            session[c].chat_history[k].role =
                IF k % 2 = 1 THEN "user" ELSE "assistant"
(***************************************************************************)
(* C29.  Session registry lifecycle.  The first access of a session        *)
(* constructs its store and its LLM client and enters them under the       *)
(* session id; later accesses construct nothing and find the same entries, *)
(* until clear.  Clear replaces an existing store by a newly constructed,  *)
(* empty one under the same id and removes the LLM client, which the next  *)
(* access constructs anew.  A session id, once given, is kept, and the     *)
(* entries of other sessions are not touched.                              *)
(***************************************************************************)
StoreAccessed ==
    \/ req.kind = "index"
    \/ \E k \in 1..Len(calls) : IsAdd(calls[k]) \/ IsQuery(calls[k])
ClientAccessed ==
    \E k \in 1..Len(calls) :
        calls[k].op \in {"generate_response", "analyze_image", "analyze_video_frames"}

C29_RegistryLifecycle ==
    [][LET c == req'.client
       IN  /\ \A d \in Clients : session[d].sid => session'[d].sid
           /\ \A d \in Clients \ {c} :
                 /\ session'[d].sid = session[d].sid
                 /\ d \in dbKeys' <=> d \in dbKeys
                 /\ d \in llmKeys' <=> d \in llmKeys
           /\ c \in dbKeys' \cup llmKeys' => session'[c].sid
           /\ IF req'.kind = "clear_database"
              THEN /\ session'[c].sid = session[c].sid
                   /\ c \in dbKeys' <=> c \in dbKeys
                   /\ c \in dbKeys => dbs'[c] = <<>>
                   /\ made' = IF c \in dbKeys THEN {"VectorDatabase"} ELSE {}
                   /\ c \notin llmKeys'
              ELSE /\ StoreAccessed' => c \in dbKeys'
                   /\ ClientAccessed' => c \in llmKeys'
                   /\ c \in dbKeys => c \in dbKeys'
                   /\ c \in llmKeys => c \in llmKeys'
                   /\ "VectorDatabase" \in made'
                         <=> (c \notin dbKeys /\ c \in dbKeys')
                   /\ "OpenAIHandler" \in made'
                         <=> (c \notin llmKeys /\ c \in llmKeys')]_vars

\* a clear has replaced the store of a session and removed its LLM client,
\* while the other session keeps its own
C29_Witness ==
    /\ req.kind = "clear_database"
    /\ made = {"VectorDatabase"}
    /\ session[req.client].sid
    /\ req.client \in dbKeys
    /\ req.client \notin llmKeys
    /\ \E d \in Clients \ {req.client} : d \in dbKeys /\ d \in llmKeys
(***************************************************************************)
(* C30.  For every duration D > 0 and segment length L, the segments that  *)
(* split_audio_into_chunks cuts are in time order, contiguous from 0, each *)
(* non-empty and at most L long, and end at D: no trailing part of the     *)
(* audio is outside every segment, and there is at least one segment.      *)
(***************************************************************************)
SplitAudioCalled == retMedia.done /\ retMedia.fn = "split_audio_into_chunks"
SplitCall == retMedia.calls[1]

C30_SegmentsCoverAudio ==
    (SplitAudioCalled /\ SplitCall.ok /\ duration_ms(argFile) > 0) =>
        LET segments == SplitCall.segments
            n == Len(segments)
        IN  /\ n >= 1
            /\ Len(retMedia.result) = n
            /\ segments[1].start = 0
            /\ \A k \in 1..n :
                  /\ segments[k].start < segments[k].end
                  /\ segments[k].end - segments[k].start <= SplitCall.seconds * 1000
            /\ \A k \in 1..(n - 1) : segments[k + 1].start = segments[k].end
            /\ segments[n].end = duration_ms(argFile)
=====================================
